---- MODULE Spec2Model ----
(***************************************************************************)
(* Model of the numerical core of Create-Map-IDW: the categorizer          *)
(* (categorize_ch, categorize_index), the region aggregator (count_points), *)
(* the verification scorer (calculate_metrics) and the IDW kernel          *)
(* (idw_numba) of src/Main/utils.py, the grid resampling and the grid      *)
(* cache of src/Main/map_creation.py, with their callers.                  *)
(*                                                                         *)
(* Numbers are exact.  A cell value is a record [kind, w, f]; for kind      *)
(* "num" the number is w + f / Scale with 0 <= f < Scale, so that values   *)
(* lying between two consecutive integers (100.5) are representable.       *)
(***************************************************************************)
EXTENDS Integers, Sequences, FiniteSets, TLC

VARIABLES
    value,              \* categorizer: the cell handed to categorize_*
    ch_ret,             \* categorizer: outcome of categorize_ch(value)
    index_ret,          \* categorizer: outcome of categorize_index(value)
    cfg_tipe,           \* cfg.tipe as set by execute()
    cfg_skala,          \* cfg.skala as set by execute()
    field,              \* count_points: name of the counted value column
    levels,             \* count_points: the levels list passed by create_map
    arr,                \* count_points: data[value].values of one region group
    counts,             \* count_points: the returned RegionCount (or Pending)
    pairs,              \* scorer: the aligned (forecast, observed) category pairs
    n_cat,              \* scorer: number of real categories of the reindexed table
    contingency_table,  \* scorer: the table built by the caller (or Pending)
    metrics,            \* scorer: outcome of calculate_metrics (or Pending)
    values_full,        \* create_map: the value column of the station table
    lon_full,           \* create_map: geometry.x of the stations
    lat_full,           \* create_map: geometry.y of the stations
    cfg_interpolation_method,   \* cfg.interpolation_method, "absent" if unset
    method,             \* create_map: the resampling method chosen
    interpolated,       \* create_map: outcome of _interpolate_regular_grid
    grid_values,        \* _interpolate_regular_grid: the source grid handed to
                        \* RegularGridInterpolator
    shp_main,           \* tuple(shp_main.total_bounds) of the region mapped
    grid_cache,         \* map_creation._grid_cache: bounds -> entry
    cache_origin,       \* history: the call that stored each _grid_cache entry
    basemap_cache,      \* static._basemap_cache: wilayah -> history of its load
    uploads,            \* history: number of upload_files() calls so far
    builds,             \* history: number of grids built so far
    fine,               \* the last _get_fine_grid call and what it returned
    pc,                 \* threads: position of each thread in its call
    frame,              \* threads: the local variables of each thread
    dists,              \* idw_numba: dists[i, :] of one grid cell
    values,             \* idw_numba: values[idxs[i, :]] of that cell
    power,              \* idw_numba: the power argument
    result,             \* idw_numba: result[i] (or Pending)
    gdf,                \* region aggregation: the station points handed in
    caller,             \* region aggregation: the function that clips them
    status,             \* the messages passed to status_update, in order
    clipped_gdf,        \* gpd.clip(gdf, shp_main) as used afterwards
    province_counts,    \* the 'total' of each PROVINSI group (or Pending)
    kabupaten_counts,   \* the 'total' of each KABUPATEN group (or Pending)
    cfg_file,           \* cfg.file_prakiraan, cfg.file_analisis, cfg.file_hth
    df_cache,           \* _df_prakiraan_cache, _df_analisis_cache, _df_hth_cache
    load_ret,           \* the last load_* call and what it returned
    wilayah,            \* load_basemap: the list of requested names
    basemap_ret,        \* load_basemap: its outcome (or Pending)
    locals              \* parallel loop: the local variables of each worker

vars == <<value, ch_ret, index_ret, cfg_tipe, cfg_skala, field, levels, arr,
          counts, pairs, n_cat, contingency_table, metrics,
          values_full, lon_full, lat_full, cfg_interpolation_method, method,
          interpolated, grid_values, shp_main, grid_cache, cache_origin, basemap_cache, uploads,
          builds, fine, pc, frame, dists, values, power, result,
          gdf, caller, status, clipped_gdf, province_counts, kabupaten_counts,
          cfg_file, df_cache, load_ret, wilayah, basemap_ret, locals>>

catVars == <<value, ch_ret, index_ret>>
countVars == <<cfg_tipe, cfg_skala, field, levels, arr, counts>>
scoreVars == <<pairs, n_cat, contingency_table, metrics>>
mapVars == <<values_full, lon_full, lat_full, cfg_interpolation_method, method,
             interpolated, grid_values>>
gridVars == <<shp_main, grid_cache, cache_origin, basemap_cache, uploads, builds,
              fine>>
threadVars == <<pc, frame>>
idwVars == <<dists, values, power, result>>
regionVars == <<gdf, caller, status, clipped_gdf, province_counts,
                kabupaten_counts>>
dataVars == <<cfg_file, df_cache, load_ret>>
baseVars == <<wilayah, basemap_ret>>
parVars == <<locals>>

(***************************************************************************)
(* Bounds of the model.                                                    *)
(***************************************************************************)
Scale == 2          \* a number is w + f / Scale, f in 0 .. Scale - 1
MaxWhole == 520     \* categorizer inputs range over -MaxNeg .. MaxWhole
MaxNeg == 6
MaxPoints == 3      \* points in one region group
MaxStations == 3    \* stations in a verification run

Pending == [tag |-> "pending"]

(***************************************************************************)
(* Cell values.                                                            *)
(***************************************************************************)
NoneV == [kind |-> "none", w |-> 0, f |-> 0]
NaNV == [kind |-> "nan", w |-> 0, f |-> 0]
StrV == [kind |-> "str", w |-> 0, f |-> 0]
PosInfV == [kind |-> "inf", w |-> 1, f |-> 0]
NegInfV == [kind |-> "inf", w |-> -1, f |-> 0]
BoolV(b) == [kind |-> "bool", w |-> IF b THEN 1 ELSE 0, f |-> 0]
NumV(k, j) == [kind |-> "num", w |-> k, f |-> j]
Whole(k) == NumV(k, 0)

\* order of a finite value against an integer e
Lt(v, e) == v.w < e
Le(v, e) == v.w < e \/ (v.w = e /\ v.f = 0)
Ge(v, e) == v.w >= e
Gt(v, e) == v.w > e \/ (v.w = e /\ v.f > 0)

Return(c) == [tag |-> "return", val |-> c]
Raise(e) == [tag |-> "raise", exc |-> e]

\* pd.isna(value) on a scalar cell
pd_isna(v) == v.kind \in {"none", "nan"}

\* np.isnan(value): TypeError on what is no number
np_isnan(v) ==
    CASE v.kind = "nan" -> "true"
      [] v.kind \in {"num", "inf", "bool"} -> "false"
      [] OTHER -> "TypeError"

\* mutant: the isinstance guard lets every value through
isinstance_anything(v) == TRUE

\* isinstance(value, (int, float, np.integer, np.floating)); bool is an int
isinstance_number(v) == v.kind \in {"num", "inf", "nan", "bool"}

\* value < 0 ; an order comparison of a str or None with an int is a TypeError
lt_zero(v) ==
    CASE v.kind \in {"num", "inf", "bool"} -> IF Lt(v, 0) THEN "true" ELSE "false"
      [] v.kind = "nan" -> "false"
      [] OTHER -> "TypeError"

\* min_val <= value <= max_val for a range (min_val, max_val); Inf stands
\* for float('inf') / np.inf as an upper end
Inf == -1
in_range(v, r) ==
    CASE v.kind = "inf" -> v.w > 0 /\ r[2] = Inf
      [] v.kind = "nan" -> FALSE
      [] OTHER -> /\ Ge(v, r[1])
                  /\ (r[2] = Inf \/ Le(v, r[2]))

\* mutant: the first bound of categorize_ch is exclusive at 100
ch_ranges_exclusive == << <<0, 99>>, <<100, 300>>, <<301, 500>>, <<501, Inf>> >>

ch_ranges == << <<0, 100>>, <<101, 300>>, <<301, 500>>, <<501, Inf>> >>

\* mutant: the 401-500 step of categorize_index is missing
index_ranges_short == << <<0, 20>>, <<21, 50>>, <<51, 100>>, <<101, 150>>,
                         <<151, 200>>, <<201, 300>>, <<301, 400>>, <<401, Inf>> >>

index_ranges == << <<0, 20>>, <<21, 50>>, <<51, 100>>, <<101, 150>>,
                   <<151, 200>>, <<201, 300>>, <<301, 400>>, <<401, 500>>,
                   <<501, Inf>> >>

\* the fallback_strategy chain: 'lowest' in both functions
fallback_strategy == "lowest"
fallback(highest, middle) ==
    CASE fallback_strategy = "lowest" -> 1
      [] fallback_strategy = "highest" -> highest
      [] fallback_strategy = "middle" -> middle
      [] OTHER -> 1

\* for category, (min_val, max_val) in ranges.items(): first hit, else `last`
first_range(v, ranges, last) ==
    LET hits == {c \in DOMAIN ranges : in_range(v, ranges[c])}
    IN IF hits = {} THEN last
       ELSE CHOOSE c \in hits : \A d \in hits : c <= d

\* the body shared by the two categorizers, parameterised as their literals are
categorize(v, ranges, highest, middle, last) ==
    IF pd_isna(v) \/ v.kind = "none" THEN Return(fallback(highest, middle))
    ELSE IF np_isnan(v) = "true" THEN Return(fallback(highest, middle))
    ELSE IF ~isinstance_number(v) THEN Return(fallback(highest, middle))
    ELSE IF lt_zero(v) = "TypeError" THEN Raise("TypeError")
    ELSE IF lt_zero(v) = "true" THEN Return(1)
    ELSE Return(first_range(v, ranges, last))

categorize_ch(v) == categorize(v, ch_ranges, 4, 2, 4)

categorize_index(v) == categorize(v, index_ranges, 9, 5, 9)

\* the cells a loaded station table can hand to the categorizers
CellValues ==
    {NoneV, NaNV, StrV, PosInfV, NegInfV, BoolV(TRUE), BoolV(FALSE), Whole(1000000000)}
    \cup {NumV(k, j) : k \in (0 - MaxNeg) .. MaxWhole, j \in 0 .. (Scale - 1)}

CatIdle == /\ value = NoneV /\ ch_ret = Pending /\ index_ret = Pending
CountIdle == /\ cfg_tipe = "None" /\ cfg_skala = "None" /\ field = "None"
             /\ levels = <<>> /\ arr = <<>> /\ counts = Pending
ScoreIdle == /\ pairs = <<>> /\ n_cat = 0 /\ contingency_table = Pending
             /\ metrics = Pending
MapIdle == /\ values_full = <<>> /\ lon_full = <<>> /\ lat_full = <<>>
           /\ cfg_interpolation_method = "absent" /\ method = "None"
           /\ interpolated = Pending /\ grid_values = <<>>
GridIdle == /\ shp_main = <<>> /\ grid_cache = <<>> /\ cache_origin = <<>>
            /\ basemap_cache = <<>> /\ uploads = 0 /\ builds = 0
            /\ fine = Pending
ThreadIdle == /\ pc = <<>> /\ frame = <<>>
IdwIdle == /\ dists = <<>> /\ values = <<>> /\ power = 0 /\ result = Pending
RegionIdle == /\ gdf = <<>> /\ caller = "None" /\ status = <<>>
              /\ clipped_gdf = Pending /\ province_counts = Pending
              /\ kabupaten_counts = Pending
DataIdle == /\ cfg_file = <<>> /\ df_cache = <<>> /\ load_ret = Pending
BaseIdle == /\ wilayah = <<>> /\ basemap_ret = Pending
ParIdle == locals = <<>>

(***************************************************************************)
(* Categorizer: arrange_table applies both functions to every cell.        *)
(***************************************************************************)
CatInit == /\ value \in CellValues
           /\ ch_ret = Pending
           /\ index_ret = Pending
           /\ CountIdle
           /\ ScoreIdle
           /\ MapIdle /\ GridIdle /\ ThreadIdle /\ IdwIdle
           /\ RegionIdle /\ DataIdle /\ BaseIdle /\ ParIdle

ApplyCategorizeCh ==
    /\ ch_ret = Pending
    /\ ch_ret' = categorize_ch(value)
    /\ UNCHANGED <<value, index_ret, countVars, regionVars, dataVars, baseVars, parVars, scoreVars, mapVars, gridVars,
                   threadVars, idwVars>>

ApplyCategorizeIndex ==
    /\ index_ret = Pending
    /\ index_ret' = categorize_index(value)
    /\ UNCHANGED <<value, ch_ret, countVars, regionVars, dataVars, baseVars, parVars, scoreVars, mapVars, gridVars,
                   threadVars, idwVars>>

CatNext == ApplyCategorizeCh \/ ApplyCategorizeIndex

SpecCat == CatInit /\ [][CatNext]_vars

\* value is a valid non-negative amount lo <= value <= hi (hi = Inf: no upper end)
Amount(lo, hi) ==
    \/ /\ value.kind = "num"
       /\ Ge(value, lo)
       /\ (hi = Inf \/ Le(value, hi))
    \/ /\ value = PosInfV
       /\ hi = Inf

\* value is an invalid input: missing/None, NaN, non-numeric, or negative
Invalid ==
    \/ value \in {NoneV, NaNV, StrV, NegInfV}
    \/ value.kind = "num" /\ Lt(value, 0)

(* C1: categorize_ch returns an integer in 1..4 for every input; for a valid
   non-negative amount v it returns 1 when 0 <= v <= 100, 2 when
   101 <= v <= 300, 3 when 301 <= v <= 500 and 4 when v >= 501 (so 100 -> 1,
   101 -> 2, 1e9 -> 4). *)
T_C1_CategorizeCh ==
    ch_ret # Pending =>
        /\ ch_ret.tag = "return"
        /\ ch_ret.val \in 1..4
        /\ Amount(0, 100) => ch_ret.val = 1
        /\ Amount(101, 300) => ch_ret.val = 2
        /\ Amount(301, 500) => ch_ret.val = 3
        /\ Amount(501, Inf) => ch_ret.val = 4
        /\ value = Whole(100) => ch_ret.val = 1
        /\ value = Whole(101) => ch_ret.val = 2
        /\ value = Whole(1000000000) => ch_ret.val = 4

W_C1_HugeAmount == value = Whole(1000000000) /\ ch_ret = Return(4)

(* C2: categorize_index returns an integer in 1..9 for every input; for a
   valid non-negative value it returns the bucket of the bounds 0-20 -> 1,
   21-50 -> 2, 51-100 -> 3, 101-150 -> 4, 151-200 -> 5, 201-300 -> 6,
   301-400 -> 7, 401-500 -> 8, >= 501 -> 9. *)
T_C2_CategorizeIndex ==
    index_ret # Pending =>
        /\ index_ret.tag = "return"
        /\ index_ret.val \in 1..9
        /\ Amount(0, 20) => index_ret.val = 1
        /\ Amount(21, 50) => index_ret.val = 2
        /\ Amount(51, 100) => index_ret.val = 3
        /\ Amount(101, 150) => index_ret.val = 4
        /\ Amount(151, 200) => index_ret.val = 5
        /\ Amount(201, 300) => index_ret.val = 6
        /\ Amount(301, 400) => index_ret.val = 7
        /\ Amount(401, 500) => index_ret.val = 8
        /\ Amount(501, Inf) => index_ret.val = 9

W_C2_Bucket8 == value = Whole(450) /\ index_ret = Return(8)

(* C3: for every invalid input (missing/None, NaN, a non-numeric value or a
   negative number) both categorize_ch and categorize_index return category 1
   and neither raises. *)
T_C3_InvalidFallsToLowest ==
    Invalid =>
        /\ ch_ret # Pending => ch_ret = Return(1)
        /\ index_ret # Pending => index_ret = Return(1)

W_C3_NonNumeric == value = StrV /\ ch_ret = Return(1) /\ index_ret = Return(1)


(***************************************************************************)
(* Region aggregator: create_map calls count_points once per region group. *)
(***************************************************************************)
Named(text) == <<text, 0, 0>>           \* a literal label
RangeLabel(lo, hi) == <<"-", lo, hi>>   \* f"{levels[i]}-{levels[i+1]}"
GeLabel(last) == <<">=", last, last>>   \* f">={levels[-1]}"
TotalKey == Named("total")

SeqRange(s) == {s[i] : i \in DOMAIN s}
BoundedSeq(S, n) == UNION {[1..k -> S] : k \in 0..n}

\* mutant: the monthly and the short-timescale tables are exchanged
bin_table_swapped(tipe, skala, lv) ==
    IF tipe = "Curah Hujan"
    THEN IF skala = "Bulanan"
         THEN [bins |-> <<0, 50, 150, 300, Inf>>,
               labels |-> <<Named("Rendah"), Named("Menengah"), Named("Tinggi"),
                            Named("Sangat Tinggi")>>]
         ELSE [bins |-> <<0, 100, 300, 500, Inf>>,
               labels |-> <<Named("Rendah"), Named("Menengah"), Named("Tinggi"),
                            Named("Sangat Tinggi")>>]
    ELSE IF tipe = "Sifat Hujan"
    THEN [bins |-> <<0, 85, 115, Inf>>,
          labels |-> <<Named("Bawah Normal"), Named("Normal"), Named("Atas Normal")>>]
    ELSE [bins |-> Append(lv, Inf),
          labels |-> [i \in 1..Len(lv) |->
                         IF i < Len(lv) THEN RangeLabel(lv[i], lv[i + 1])
                         ELSE GeLabel(lv[Len(lv)])]]

\* the bins and labels count_points selects from cfg.tipe, cfg.skala and levels
bin_table(tipe, skala, lv) ==
    IF tipe = "Curah Hujan"
    THEN IF skala = "Bulanan"
         THEN [bins |-> <<0, 100, 300, 500, Inf>>,
               labels |-> <<Named("Rendah"), Named("Menengah"), Named("Tinggi"),
                            Named("Sangat Tinggi")>>]
         ELSE [bins |-> <<0, 50, 150, 300, Inf>>,
               labels |-> <<Named("Rendah"), Named("Menengah"), Named("Tinggi"),
                            Named("Sangat Tinggi")>>]
    ELSE IF tipe = "Sifat Hujan"
    THEN [bins |-> <<0, 85, 115, Inf>>,
          labels |-> <<Named("Bawah Normal"), Named("Normal"), Named("Atas Normal")>>]
    ELSE [bins |-> Append(lv, Inf),
          labels |-> [i \in 1..Len(lv) |->
                         IF i < Len(lv) THEN RangeLabel(lv[i], lv[i + 1])
                         ELSE GeLabel(lv[Len(lv)])]]

\* np.histogram with explicit edges: bin i is [bins[i], bins[i+1]), the last
\* bin is closed on the right; NaN and values left of bins[1] fall in no bin
in_bin(x, bins, i) ==
    /\ x.kind = "num"
    /\ Ge(x, bins[i])
    /\ IF i + 1 = Len(bins)
       THEN bins[i + 1] = Inf \/ Le(x, bins[i + 1])
       ELSE Lt(x, bins[i + 1])

histogram(a, bins) ==
    [i \in 1..(Len(bins) - 1) |-> Cardinality({k \in DOMAIN a : in_bin(a[k], bins, i)})]

\* counts = dict(zip(labels, counts_arr)); counts['total'] = len(arr)
count_points(a, tipe, skala, lv) ==
    LET t == bin_table(tipe, skala, lv)
        counts_arr == histogram(a, t.bins)
        n == IF Len(t.labels) < Len(counts_arr) THEN Len(t.labels) ELSE Len(counts_arr)
        last(l) == CHOOSE i \in 1..n : t.labels[i] = l /\ \A j \in 1..n : t.labels[j] = l => j <= i
    IN [l \in {t.labels[i] : i \in 1..n} \cup {TotalKey} |->
           IF l = TotalKey THEN Len(a) ELSE counts_arr[last(l)]]

\* the create_map calls of the processors: value column and levels
VerifLevels == <<0, 1>>
PchLevels == <<0, 20, 50, 100, 150, 200, 300, 400, 500, 1000>>
BiasLevels == <<-1000, -500, -400, -300, -200, -100, -50, -25, 0, 25, 50, 100,
                200, 300, 400, 500, 1000>>

MapCalls == {[field |-> "exact_match", levels |-> VerifLevels],
             [field |-> "VAL", levels |-> PchLevels],
             [field |-> "bias", levels |-> BiasLevels]}

\* the values a column can hold: the match columns are astype(int) of a
\* comparison; the others are station amounts, possibly missing or negative
ColumnValues(f) ==
    IF f = "exact_match" THEN {Whole(0), Whole(1)}
    ELSE {NaNV} \cup {Whole(k) : k \in {-1200, -5, 0, 50, 100, 250, 300, 500, 600}}

CountInit ==
    /\ cfg_tipe \in {"Curah Hujan", "Sifat Hujan", "None"}
    /\ cfg_skala \in {"Bulanan", "Dasarian", "None"}
    /\ \E c \in MapCalls :
          /\ field = c.field
          /\ levels = c.levels
          /\ arr \in BoundedSeq(ColumnValues(c.field), MaxPoints)
    /\ counts = Pending
    /\ CatIdle
    /\ ScoreIdle
    /\ MapIdle /\ GridIdle /\ ThreadIdle /\ IdwIdle
    /\ RegionIdle /\ DataIdle /\ BaseIdle /\ ParIdle

CountPoints ==
    /\ counts = Pending
    /\ counts' = Return(count_points(arr, cfg_tipe, cfg_skala, levels))
    /\ UNCHANGED <<cfg_tipe, cfg_skala, field, levels, arr, catVars, scoreVars, regionVars, dataVars, baseVars, parVars,
                   mapVars, gridVars, threadVars, idwVars>>

CountNext == CountPoints

SpecCount == CountInit /\ [][CountNext]_vars

\* the sum of the category counts of a RegionCount, 'total' excluded
RECURSIVE SumOver(_, _)
SumOver(f, keys) ==
    IF keys = {} THEN 0
    ELSE LET k == CHOOSE x \in keys : TRUE
         IN f[k] + SumOver(f, keys \ {k})

CategorySum(d) == SumOver(d, (DOMAIN d) \ {TotalKey})

\* number of points of arr strictly inside (lo, hi), resp. inside [lo, hi];
\* hi = Inf: no upper end
Inside(lo, hi) ==
    Cardinality({k \in DOMAIN arr :
        /\ arr[k].kind = "num"
        /\ Gt(arr[k], lo)
        /\ (hi = Inf \/ Lt(arr[k], hi))})

Within(lo, hi) ==
    Cardinality({k \in DOMAIN arr :
        /\ arr[k].kind = "num"
        /\ Ge(arr[k], lo)
        /\ (hi = Inf \/ Le(arr[k], hi))})

Counted(name, lo, hi) ==
    /\ Inside(lo, hi) <= counts.val[Named(name)]
    /\ counts.val[Named(name)] <= Within(lo, hi)

(* C4: for every RegionCount returned by count_points (any value column, any
   configured tipe/skala, any levels) the sum of all category counts
   excluding 'total' equals 'total', the number of points of the group. *)
CE_C4_CategoryTotals ==
    counts # Pending =>
        /\ counts.val[TotalKey] = Len(arr)
        /\ CategorySum(counts.val) = counts.val[TotalKey]

(* C5: count_points selects its bin table from the semantic field: rainfall
   amount, monthly: bounds 0/100/300/500 into Rendah, Menengah, Tinggi,
   Sangat Tinggi; rainfall amount, any other timescale: bounds 0/50/150/300
   into the same labels; rainfall character: bounds 0/85/115 into Bawah
   Normal, Normal, Atas Normal.  The values 50, 250, 600 under the monthly
   table give Rendah 1, Menengah 1, Tinggi 0, Sangat Tinggi 1, total 3. *)
T_C5_BinTableBySemanticField ==
    counts # Pending =>
        /\ cfg_tipe = "Curah Hujan" =>
              DOMAIN counts.val = {Named("Rendah"), Named("Menengah"), Named("Tinggi"),
                                   Named("Sangat Tinggi"), TotalKey}
        /\ cfg_tipe = "Curah Hujan" /\ cfg_skala = "Bulanan" =>
              /\ Counted("Rendah", 0, 100)
              /\ Counted("Menengah", 100, 300)
              /\ Counted("Tinggi", 300, 500)
              /\ Counted("Sangat Tinggi", 500, Inf)
        /\ cfg_tipe = "Curah Hujan" /\ cfg_skala # "Bulanan" =>
              /\ Counted("Rendah", 0, 50)
              /\ Counted("Menengah", 50, 150)
              /\ Counted("Tinggi", 150, 300)
              /\ Counted("Sangat Tinggi", 300, Inf)
        /\ cfg_tipe = "Sifat Hujan" =>
              /\ DOMAIN counts.val = {Named("Bawah Normal"), Named("Normal"),
                                      Named("Atas Normal"), TotalKey}
              /\ Counted("Bawah Normal", 0, 85)
              /\ Counted("Normal", 85, 115)
              /\ Counted("Atas Normal", 115, Inf)
        /\ (/\ cfg_tipe = "Curah Hujan" /\ cfg_skala = "Bulanan"
            /\ arr = <<Whole(50), Whole(250), Whole(600)>>) =>
              counts.val = (Named("Rendah") :> 1 @@ Named("Menengah") :> 1
                            @@ Named("Tinggi") :> 0 @@ Named("Sangat Tinggi") :> 1
                            @@ TotalKey :> 3)

W_C5_MonthlyScenario ==
    /\ cfg_tipe = "Curah Hujan" /\ cfg_skala = "Bulanan"
    /\ arr = <<Whole(50), Whole(250), Whole(600)>>
    /\ counts # Pending
    /\ counts.val[Named("Sangat Tinggi")] = 1

(* C6: when the counted field is the binary verification match (exact_match
   with values 0 and 1, levels [0, 1]) the per-region counts are keyed by the
   labels Tidak Sesuai (value 0) and Sesuai (value 1). *)
CE_C6_VerificationLabels ==
    (field = "exact_match" /\ counts # Pending) =>
        DOMAIN counts.val = {Named("Tidak Sesuai"), Named("Sesuai"), TotalKey}


(***************************************************************************)
(* Verification scorer.  Floats are modelled as exact rationals num/den    *)
(* (den > 0, lowest terms) extended with NaN and the two infinities, with  *)
(* numpy's rule that a division by zero yields NaN or an infinity and      *)
(* raises nothing.                                                         *)
(***************************************************************************)
RECURSIVE Gcd(_, _)
Gcd(a, b) == IF b = 0 THEN a ELSE Gcd(b, a % b)
Abs(a) == IF a < 0 THEN 0 - a ELSE a

NaNF == [kind |-> "nan", num |-> 0, den |-> 0]
InfF(sign) == [kind |-> "inf", num |-> sign, den |-> 0]
Rat(a, b) ==
    LET g == Gcd(Abs(a), Abs(b))
        sg == IF b < 0 THEN 0 - 1 ELSE 1
    IN [kind |-> "num", num |-> (sg * a) \div g, den |-> (sg * b) \div g]
IntF(a) == Rat(a, 1)
Sign(a) == IF a < 0 THEN 0 - 1 ELSE 1

FNeg(x) ==
    CASE x.kind = "num" -> Rat(0 - x.num, x.den)
      [] x.kind = "inf" -> InfF(0 - x.num)
      [] OTHER -> NaNF

FAdd(x, y) ==
    CASE x.kind = "nan" \/ y.kind = "nan" -> NaNF
      [] x.kind = "inf" /\ y.kind = "inf" -> IF x.num = y.num THEN x ELSE NaNF
      [] x.kind = "inf" -> x
      [] y.kind = "inf" -> y
      [] OTHER -> Rat(x.num * y.den + y.num * x.den, x.den * y.den)

FSub(x, y) == FAdd(x, FNeg(y))

FMul(x, y) ==
    CASE x.kind = "nan" \/ y.kind = "nan" -> NaNF
      [] x.kind = "inf" \/ y.kind = "inf" ->
            IF x.num = 0 \/ y.num = 0 THEN NaNF ELSE InfF(Sign(x.num) * Sign(y.num))
      [] OTHER -> Rat(x.num * y.num, x.den * y.den)

FDiv(x, y) ==
    CASE x.kind = "nan" \/ y.kind = "nan" -> NaNF
      [] x.kind = "inf" /\ y.kind = "inf" -> NaNF
      [] x.kind = "inf" -> InfF(x.num * (IF y.num < 0 THEN 0 - 1 ELSE 1))
      [] y.kind = "inf" -> IntF(0)
      [] y.num = 0 -> IF x.num = 0 THEN NaNF ELSE InfF(Sign(x.num))
      [] OTHER -> Rat(x.num * y.den, x.den * y.num)

\* sum(g(i) for i in 1..n), Python's sum starting from the int 0
RECURSIVE FSum(_, _)
FSum(g, n) == IF n = 0 THEN IntF(0) ELSE FAdd(FSum(g, n - 1), g[n])

\* the 'All' margin label of pd.crosstab(..., margins=True)
All == 0

\* pd.crosstab(forecast, observed, margins=True): rows = forecast category,
\* columns = observed category, with the All row, column and grand total
crosstab(ps) ==
    LET rows == {ps[k][1] : k \in DOMAIN ps}
        cols == {ps[k][2] : k \in DOMAIN ps}
        hit(k, r, c) == /\ (r = All \/ ps[k][1] = r)
                        /\ (c = All \/ ps[k][2] = c)
    IN [index |-> rows \cup {All},
        columns |-> cols \cup {All},
        data |-> [rc \in (rows \cup {All}) \X (cols \cup {All}) |->
                     Cardinality({k \in DOMAIN ps : hit(k, rc[1], rc[2])})]]

\* .reindex(index=all_categories + ['All'], columns=..., fill_value=0)
reindex(t, labels) ==
    [index |-> labels,
     columns |-> labels,
     data |-> [rc \in SeqRange(labels) \X SeqRange(labels) |->
                  IF rc[1] \in t.index /\ rc[2] \in t.columns THEN t.data[rc] ELSE 0]]

\* all_categories + ['All'] for list(range(1, n + 1))
all_labels(n) == [i \in 1..(n + 1) |-> IF i <= n THEN i ELSE All]

loc(t, r, c) == t.data[<<r, c>>]
iloc(t, i, j) == t.data[<<t.index[i], t.columns[j]>>]
last_pos(t) == Len(t.index)     \* position -1

\* mutant: the 'All' margin is not left out of the diagonal sum
correct_with_margin(t) ==
    LET g == [k \in 1..Len(t.index) |->
                 IF t.index[k] \in SeqRange(t.columns)
                 THEN IntF(loc(t, t.index[k], t.index[k])) ELSE IntF(0)]
    IN FSum(g, Len(t.index))

\* correct = sum(table.loc[i, i] for i in index if i != 'All' and i in columns)
correct(t) ==
    LET g == [k \in 1..Len(t.index) |->
                 IF t.index[k] # All /\ t.index[k] \in SeqRange(t.columns)
                 THEN IntF(loc(t, t.index[k], t.index[k])) ELSE IntF(0)]
    IN FSum(g, Len(t.index))

\* contingency_table.apply(lambda x: x / total, axis=0)
probabilistic(t, total) ==
    [t EXCEPT !.data = [rc \in DOMAIN t.data |-> FDiv(IntF(t.data[rc]), total)]]

\* mutant: oi2 is taken from the forecast margin (the All column)
oi2_of_forecast(p, n_categories) ==
    FSum([i \in 1..n_categories |-> FMul(iloc(p, i, last_pos(p)), iloc(p, i, last_pos(p)))],
         n_categories)

pixoi_of(p, n_categories) ==
    FSum([i \in 1..n_categories |-> FMul(iloc(p, i, last_pos(p)), iloc(p, last_pos(p), i))],
         n_categories)

hits_of(p, n_categories) ==
    FSum([i \in 1..n_categories |-> iloc(p, i, i)], n_categories)

oi2_of(p, n_categories) ==
    FSum([i \in 1..n_categories |-> FMul(iloc(p, last_pos(p), i), iloc(p, last_pos(p), i))],
         n_categories)

\* pss = (hits - pixoi) / (1 - oi2)
pss_of(t, total) ==
    LET p == probabilistic(t, total)
        n_categories == Len(t.index) - 1
    IN FDiv(FSub(hits_of(p, n_categories), pixoi_of(p, n_categories)),
            FSub(IntF(1), oi2_of(p, n_categories)))

\* sklearn's cohen_kappa_score(y1, y2): 1 - sum(w * confusion) / sum(w * expected)
\* with w = 1 off the diagonal; on empty input the outcome depends on the
\* installed library (a NaN score, or an error)
cohen_kappa_score(y1, y2) ==
    LET n == Len(y1)
        labs == SeqRange(y1) \cup SeqRange(y2)
        c1(a) == Cardinality({k \in DOMAIN y1 : y1[k] = a})
        c2(a) == Cardinality({k \in DOMAIN y2 : y2[k] = a})
        agree == Cardinality({k \in DOMAIN y1 : y1[k] = y2[k]})
        RECURSIVE Dot(_)
        Dot(S) == IF S = {} THEN 0
                  ELSE LET a == CHOOSE x \in S : TRUE
                       IN c1(a) * c2(a) + Dot(S \ {a})
        k == FDiv(IntF(n - agree), FDiv(IntF(n * n - Dot(labs)), IntF(n)))
    IN IF n = 0 THEN {Return(NaNF), Raise("ValueError")}
       ELSE {Return(FSub(IntF(1), k))}

\* calculate_metrics(forecast_series, actual_series, contingency_table): the
\* set of its outcomes
calculate_metrics(forecast_series, actual_series, t) ==
    LET total == IntF(loc(t, All, All))
        accuracy == FDiv(correct(t), total)
        pss == pss_of(t, total)
    IN {IF h.tag = "raise" THEN h
        ELSE [tag |-> "return", accuracy |-> accuracy, hss |-> h.val, pss |-> pss]
          : h \in cohen_kappa_score(actual_series, forecast_series)}

forecast_of(ps) == [k \in DOMAIN ps |-> ps[k][1]]
actual_of(ps) == [k \in DOMAIN ps |-> ps[k][2]]

\* the categories the stations of a model run fall in
MaxCat == 3
Scenario == << <<1, 1>>, <<1, 2>>, <<2, 2>>, <<3, 3>> >>

ScoreInit ==
    /\ pairs \in BoundedSeq((1..MaxCat) \X (1..MaxCat), MaxStations) \cup {Scenario}
    /\ n_cat = 0
    /\ contingency_table = Pending
    /\ metrics = Pending
    /\ CatIdle
    /\ CountIdle
    /\ MapIdle /\ GridIdle /\ ThreadIdle /\ IdwIdle
    /\ RegionIdle /\ DataIdle /\ BaseIdle /\ ParIdle

\* get_verif_qual / get_verif_quan up to the metrics: crosstab, reindex to the
\* n categories, calculate_metrics.  pd.crosstab of two empty series either
\* raises or yields an empty table, depending on the installed library.
Verify(n) ==
    /\ metrics = Pending
    /\ n_cat' = n
    /\ \/ /\ pairs = <<>>
          /\ contingency_table' = Pending
          /\ metrics' = Raise("ValueError")
       \/ LET t == reindex(crosstab(pairs), all_labels(n))
          IN /\ contingency_table' = t
             /\ metrics' \in calculate_metrics(forecast_of(pairs), actual_of(pairs), t)
    /\ UNCHANGED <<pairs, catVars, countVars, regionVars, dataVars, baseVars, parVars, mapVars, gridVars, threadVars,
                   idwVars>>

GetVerifQual == Verify(4)

GetVerifQuan == Verify(9)

ScoreNext == GetVerifQual \/ GetVerifQuan

SpecScore == ScoreInit /\ [][ScoreNext]_vars


\* what the station pairs say, counted directly
Stations == Len(pairs)
Agreeing == Cardinality({k \in DOMAIN pairs : pairs[k][1] = pairs[k][2]})
Forecast(i) == Cardinality({k \in DOMAIN pairs : pairs[k][1] = i})
Observed(i) == Cardinality({k \in DOMAIN pairs : pairs[k][2] = i})

RECURSIVE SumTo(_, _)
SumTo(g, n) == IF n = 0 THEN 0 ELSE g[n] + SumTo(g, n - 1)

\* what the contingency table handed to calculate_metrics holds
Cell(r, c) == contingency_table.data[<<r, c>>]
DiagonalSum == SumTo([i \in 1..n_cat |-> Cell(i, i)], n_cat)
GrandTotal == Cell(All, All)
OffDiagonalZero == \A r, c \in 1..n_cat : r # c => Cell(r, c) = 0

Returned == metrics # Pending /\ metrics.tag = "return"

(* C7: for every contingency table passed to calculate_metrics, accuracy
   equals (sum of the diagonal cells over the real categories) / (grand total
   in the All/All cell), satisfies 0 <= accuracy <= 1, and equals 1 if and
   only if every off-diagonal cell is zero. *)
CE_C7_AccuracyBound ==
    Returned =>
        /\ metrics.accuracy.kind = "num"
        /\ metrics.accuracy.num * GrandTotal = DiagonalSum * metrics.accuracy.den
        /\ 0 <= metrics.accuracy.num
        /\ metrics.accuracy.num <= metrics.accuracy.den
        /\ (metrics.accuracy = IntF(1)) <=> OffDiagonalZero

(* C8: for forecast categories [1,1,2,3] and observed categories [1,2,2,3]
   the contingency table has 2 diagonal hits and calculate_metrics returns
   accuracy = 0.5. *)
CE_C8_ScenarioTwoHits ==
    (pairs = Scenario /\ Returned) =>
        /\ DiagonalSum = 2
        /\ metrics.accuracy = Rat(1, 2)

(* C8 as amended: for forecast [1,1,2,3] and observed [1,2,2,3] the
   contingency table has 3 diagonal hits (positions 1, 3 and 4) and
   calculate_metrics returns accuracy = 0.75. *)
T_C8_ScenarioThreeHits ==
    (pairs = Scenario /\ Returned) =>
        /\ DiagonalSum = 3
        /\ Agreeing = 3
        /\ metrics.accuracy = Rat(3, 4)

W_C8_ScenarioScored == pairs = Scenario /\ Returned /\ n_cat = 4

(* C9: calculate_metrics computes pss = (hits - pixoi) / (1 - oi2), where over
   the real categories i hits = sum of p(i,i), pixoi = sum of
   p(i,All) * p(All,i), oi2 = sum of p(All,i)^2, p is the table divided by its
   grand total, rows are forecast categories and columns observed ones.  With
   N stations this is (N * agreeing - sum F(i) * O(i)) / (N^2 - sum O(i)^2);
   where that denominator is zero the quotient is no number. *)
T_C9_PssFormula ==
    (Returned /\ Stations > 0) =>
        LET numer == Stations * Agreeing
                     - SumTo([i \in 1..n_cat |-> Forecast(i) * Observed(i)], n_cat)
            denom == Stations * Stations
                     - SumTo([i \in 1..n_cat |-> Observed(i) * Observed(i)], n_cat)
        IN IF denom # 0
           THEN /\ metrics.pss.kind = "num"
                /\ metrics.pss.num * denom = numer * metrics.pss.den
           ELSE metrics.pss.kind # "num"

W_C9_NegativeSkill ==
    /\ pairs = << <<1, 2>>, <<2, 2>>, <<2, 1>> >>
    /\ Returned
    /\ metrics.pss = Rat(0 - 1, 2)

(* C10: when all observations fall in one category (1 - oi2 is zero)
   calculate_metrics reports pss as undefined (an error outcome) and never
   returns an infinite or NaN pss to the caller. *)
CE_C10_DegeneratePssReported ==
    (/\ Stations > 0
     /\ \A k, l \in DOMAIN pairs : pairs[k][2] = pairs[l][2]
     /\ metrics # Pending) =>
        /\ metrics.tag = "raise"

(* C11: when the contingency table is all zero (grand total 0, no stations
   matched), calculate_metrics fails with a hard error and returns no
   (accuracy, hss, pss) result. *)
CE_C11_AllZeroTableIsHardError ==
    (/\ contingency_table # Pending
     /\ GrandTotal = 0
     /\ metrics # Pending) =>
        /\ metrics.tag = "raise"

(***************************************************************************)
(* create_map: choice of the resampling method.  A value column is a       *)
(* sequence of floats (NaNF for a missing value).                          *)
(***************************************************************************)
MaxDistinct == 12   \* distinct station values of a column range over 1 .. MaxDistinct

\* values_full[~np.isnan(values_full)]
not_nan(col) == {k \in DOMAIN col : col[k].kind # "nan"}

\* np.unique(...): the distinct values that remain
np_unique(col) == {col[k] : k \in not_nan(col)}

\* mutant: a column of exactly 10 distinct values is no longer discrete
is_discrete_below(col) == Cardinality(np_unique(col)) < 10

\* is_discrete = len(unique_values) <= 10
is_discrete(col) == Cardinality(np_unique(col)) <= 10

\* getattr(cfg, 'interpolation_method', 'linear')
getattr_interpolation_method(c) == IF c = "absent" THEN "linear" ELSE c

\* mutant: the configured method is used for every column
select_configured(col, c) == getattr_interpolation_method(c)

\* method = 'nearest' if is_discrete else getattr(cfg, ...)
select_method(col, c) ==
    IF is_discrete(col) THEN "nearest" ELSE getattr_interpolation_method(c)

\* the settings the docstring of create_map supports, or none at all
Methods == {"absent", "linear", "cubic", "nearest"}

RECURSIVE Ascending(_)
Ascending(S) ==
    IF S = {} THEN <<>>
    ELSE LET m == CHOOSE x \in S : \A y \in S : x <= y
         IN <<m>> \o Ascending(S \ {m})

\* a station column: the amounts of S, some stations repeating an amount,
\* some reporting nothing
Column(S, repeated, missing) ==
    LET amounts == [k \in 1..Cardinality(S) |-> IntF(Ascending(S)[k])]
    IN amounts \o (IF repeated THEN amounts ELSE <<>>)
               \o (IF missing THEN <<NaNF, NaNF>> ELSE <<>>)

MethodInit ==
    /\ \E S \in SUBSET (1..MaxDistinct), repeated \in BOOLEAN, missing \in BOOLEAN :
          values_full = Column(S, repeated, missing)
    /\ cfg_interpolation_method \in Methods
    /\ lon_full = <<>> /\ lat_full = <<>>
    /\ method = "None"
    /\ interpolated = Pending
    /\ grid_values = <<>>
    /\ CatIdle /\ CountIdle /\ ScoreIdle
    /\ GridIdle /\ ThreadIdle /\ IdwIdle
    /\ RegionIdle /\ DataIdle /\ BaseIdle /\ ParIdle

\* create_map, from the unique values to the chosen method
SelectMethod ==
    /\ method = "None"
    /\ method' = select_method(values_full, cfg_interpolation_method)
    /\ UNCHANGED <<values_full, lon_full, lat_full, cfg_interpolation_method,
                   interpolated, grid_values, catVars, countVars, regionVars, dataVars, baseVars, parVars, scoreVars,
                   gridVars,
                   threadVars, idwVars>>

MethodNext == SelectMethod

SpecMethod == MethodInit /\ [][MethodNext]_vars

\* the distinct amounts the stations of the column report
Amounts == {v \in SeqRange(values_full) : v # NaNF}

(* C12: create_map chooses the resampling method from the value column
   alone: with at most 10 distinct non-NaN values the method is 'nearest'
   whatever cfg.interpolation_method is; with more than 10 it is
   cfg.interpolation_method, or 'linear' when that setting is absent. *)
T_C12_MethodFromColumn ==
    method # "None" =>
        /\ Cardinality(Amounts) <= 10 => method = "nearest"
        /\ (Cardinality(Amounts) > 10 /\ cfg_interpolation_method # "absent") =>
              method = cfg_interpolation_method
        /\ (Cardinality(Amounts) > 10 /\ cfg_interpolation_method = "absent") =>
              method = "linear"

W_C12_TenDistinctValues ==
    /\ Cardinality(Amounts) = 10
    /\ Len(values_full) = 22
    /\ cfg_interpolation_method = "cubic"
    /\ method = "nearest"

(***************************************************************************)
(* create_map: resampling of the station grid onto the fine grid.          *)
(* Coordinates are integers; the stations lie on a regular source grid     *)
(* (every second coordinate), the fine grid has a node at every            *)
(* coordinate, so that fine nodes fall on, between and outside the         *)
(* source nodes.                                                           *)
(***************************************************************************)
MaxSources == 3     \* stations of one resampled table

SourceLon == {0, 2, 4}
SourceLat == {0, 2}
SourceValues == {NaNF, IntF(10), IntF(20), IntF(40)}

\* fine['x_grid'], fine['y_grid']: the nodes of the fine grid
x_grid == <<-1, 0, 1, 2, 3, 4, 5>>
y_grid == <<-1, 0, 1, 2, 3>>

\* np.sort(np.unique(pts))
sort_unique(pts) == Ascending(SeqRange(pts))

\* np.searchsorted(axis, x) for an x that is on the axis (0-based in the
\* source, 1-based here)
searchsorted(axis, x) == CHOOSE i \in DOMAIN axis : axis[i] = x

\* grid_values = np.full(..., nan); grid_values[lat_idx, lon_idx] = values:
\* of several stations on one node the last one stays
scatter(lon_pts, lat_pts, vals, unique_lon, unique_lat) ==
    [cell \in (DOMAIN unique_lat) \X (DOMAIN unique_lon) |->
        LET here == {k \in DOMAIN vals :
                        /\ searchsorted(unique_lat, lat_pts[k]) = cell[1]
                        /\ searchsorted(unique_lon, lon_pts[k]) = cell[2]}
        IN IF here = {} THEN NaNF
           ELSE vals[CHOOSE k \in here : \A j \in here : j <= k]]

\* squared distance of two nodes in index space
sqdist(a, b) == (a[1] - b[1]) * (a[1] - b[1]) + (a[2] - b[2]) * (a[2] - b[2])

\* distance_transform_edt(mask, return_indices=True): for every masked node
\* the index of a nearest unmasked node; which one of several equally near
\* nodes is left to the library
nearest_clear(mask, c) ==
    LET clear == {v \in DOMAIN mask : ~mask[v]}
    IN IF ~mask[c] \/ clear = {} THEN {c}
       ELSE {v \in clear : \A u \in clear : sqdist(c, v) <= sqdist(c, u)}

RECURSIVE edt_choices(_, _)
edt_choices(mask, cells) ==
    IF cells = {} THEN {<<>>}
    ELSE LET c == CHOOSE x \in cells : TRUE
         IN {(c :> v) @@ rest : v \in nearest_clear(mask, c),
                                rest \in edt_choices(mask, cells \ {c})}

edt_indices(mask) == edt_choices(mask, DOMAIN mask)

\* interval of a query coordinate on an axis: i = searchsorted(axis, x) - 1
\* clipped to the first and the last interval
find_index(axis, x) ==
    LET below == Cardinality({j \in DOMAIN axis : axis[j] < x})
    IN IF below < 1 THEN 1
       ELSE IF below > Len(axis) - 1 THEN Len(axis) - 1
       ELSE below

\* position of x within its interval, as a fraction of the interval
norm_distance(axis, x) ==
    LET i == find_index(axis, x)
    IN Rat(x - axis[i], axis[i + 1] - axis[i])

out_of_bounds(axis, x) == x < axis[1] \/ x > axis[Len(axis)]

\* RegularGridInterpolator._evaluate_nearest: np.where(yi <= .5, i, i + 1)
nearest_index(axis, x) ==
    LET i == find_index(axis, x)
        yi == norm_distance(axis, x)
    IN IF 2 * yi.num <= yi.den THEN i ELSE i + 1

evaluate_nearest(g, unique_lat, unique_lon, lat, lon) ==
    g[<<nearest_index(unique_lat, lat), nearest_index(unique_lon, lon)>>]

\* RegularGridInterpolator._evaluate_linear: the four corners weighted by
\* (1 - yi) and yi on each axis
evaluate_linear(g, unique_lat, unique_lon, lat, lon) ==
    LET i == find_index(unique_lat, lat)
        j == find_index(unique_lon, lon)
        yi == norm_distance(unique_lat, lat)
        xi == norm_distance(unique_lon, lon)
        lo(d) == FSub(IntF(1), d)
    IN FAdd(FAdd(FMul(FMul(lo(yi), lo(xi)), g[<<i, j>>]),
                 FMul(FMul(lo(yi), xi), g[<<i, j + 1>>])),
            FAdd(FMul(FMul(yi, lo(xi)), g[<<i + 1, j>>]),
                 FMul(FMul(yi, xi), g[<<i + 1, j + 1>>])))

\* _interpolate_regular_grid for one choice `ind` of the nearest-node
\* indices; bounds_error=False, fill_value=np.nan outside the source grid.
\* A spline method needs 4 points on every axis, the source grids here have
\* at most 3.
resample(g, unique_lat, unique_lon, m) ==
    IF m \notin {"nearest", "linear"} THEN Raise("ValueError")
    ELSE Return([q \in SeqRange(y_grid) \X SeqRange(x_grid) |->
            IF out_of_bounds(unique_lat, q[1]) \/ out_of_bounds(unique_lon, q[2])
            THEN NaNF
            ELSE IF m = "nearest"
                 THEN evaluate_nearest(g, unique_lat, unique_lon, q[1], q[2])
                 ELSE evaluate_linear(g, unique_lat, unique_lon, q[1], q[2])])

\* mutant: the masked nodes are left as they are
fill_skipped(scattered) == {scattered}

\* mask = np.isnan(grid_values); if mask.any(): grid_values = grid_values[ind]
fill_masked(scattered) ==
    LET mask == [c \in DOMAIN scattered |-> scattered[c].kind = "nan"]
    IN IF \E c \in DOMAIN mask : mask[c]
       THEN {[c \in DOMAIN scattered |-> scattered[ind[c]]] : ind \in edt_indices(mask)}
       ELSE {scattered}

\* the source grid as the interpolator gets it, and what the interpolator
\* returns on the fine grid
interpolate_regular_grid(lon_pts, lat_pts, vals, m) ==
    LET unique_lon == sort_unique(lon_pts)
        unique_lat == sort_unique(lat_pts)
        scattered == scatter(lon_pts, lat_pts, vals, unique_lon, unique_lat)
    IN {[grid |-> g, out |-> resample(g, unique_lat, unique_lon, m)] :
            g \in fill_masked(scattered)}

\* a table of ECMWF regular-grid data lists its nodes in scan order and has
\* nodes on two meridians and two parallels at least
ScanOrder(lon_pts, lat_pts) ==
    \A k \in 1..(Len(lon_pts) - 1) :
        \/ lat_pts[k] < lat_pts[k + 1]
        \/ lat_pts[k] = lat_pts[k + 1] /\ lon_pts[k] <= lon_pts[k + 1]

InterpInit ==
    /\ \E n \in 2..MaxSources :
          /\ lon_full \in [1..n -> SourceLon]
          /\ lat_full \in [1..n -> SourceLat]
          /\ values_full \in [1..n -> SourceValues]
    /\ ScanOrder(lon_full, lat_full)
    /\ Cardinality(SeqRange(lon_full)) >= 2
    /\ Cardinality(SeqRange(lat_full)) >= 2
    /\ cfg_interpolation_method \in Methods
    /\ method = "None"
    /\ interpolated = Pending
    /\ grid_values = <<>>
    /\ CatIdle /\ CountIdle /\ ScoreIdle
    /\ GridIdle /\ ThreadIdle /\ IdwIdle
    /\ RegionIdle /\ DataIdle /\ BaseIdle /\ ParIdle

\* create_map, from the station columns to the interpolated array
Interpolate ==
    /\ interpolated = Pending
    /\ method' = select_method(values_full, cfg_interpolation_method)
    /\ \E r \in interpolate_regular_grid(lon_full, lat_full, values_full, method') :
          /\ grid_values' = r.grid
          /\ interpolated' = r.out
    /\ UNCHANGED <<values_full, lon_full, lat_full, cfg_interpolation_method,
                   catVars, countVars, regionVars, dataVars, baseVars, parVars, scoreVars, gridVars, threadVars, idwVars>>

InterpNext == Interpolate

SpecInterp == InterpInit /\ [][InterpNext]_vars

\* the fine nodes inside the rectangle spanned by the stations
InsideSource(q) ==
    /\ \E k \in DOMAIN lat_full : lat_full[k] <= q[1]
    /\ \E k \in DOMAIN lat_full : lat_full[k] >= q[1]
    /\ \E k \in DOMAIN lon_full : lon_full[k] <= q[2]
    /\ \E k \in DOMAIN lon_full : lon_full[k] >= q[2]

(* C13: for a station value column with exactly 3 distinct values, every
   cell of the interpolated output grid holds one of those 3 input values
   (or the no-data sentinel outside the source grid); no blended
   intermediate value appears. *)
T_C13_NoBlending ==
    (Cardinality(Amounts) = 3 /\ interpolated # Pending) =>
        /\ method = "nearest"
        /\ interpolated.tag = "return"
        /\ \A q \in DOMAIN interpolated.val :
              IF InsideSource(q) THEN interpolated.val[q] \in Amounts
              ELSE interpolated.val[q] = NaNF

W_C13_ThreeCategories ==
    /\ Cardinality(Amounts) = 3
    /\ cfg_interpolation_method = "linear"
    /\ lon_full = <<0, 4, 4>> /\ lat_full = <<0, 0, 2>>
    /\ values_full = <<IntF(10), IntF(20), IntF(40)>>
    /\ interpolated # Pending
    /\ interpolated.val[<<1, 2>>] = IntF(10)
    /\ interpolated.val[<<1, 3>>] = IntF(20)
    /\ interpolated.val[<<3, 2>>] = NaNF

(***************************************************************************)
(* The fine grid and its cache.  Lengths are integers in units of a third  *)
(* of the output cell, so that a bounding box can be a whole number of     *)
(* cells wide, a fraction of a cell wider, or of no width at all.          *)
(***************************************************************************)
MaxCoord == 8       \* corners of a bounding box range over 0 .. MaxCoord

\* output_cell_size = 0.0021648361216 degrees, three units of length
output_cell_size == 3

\* mutant: the number of cells is rounded down
floor_div(a, b) == a \div b

\* int(np.ceil(a / b)) for a >= 0, b > 0
ceil_div(a, b) == (a + b - 1) \div b

\* np.linspace(start, stop, num): num nodes, both ends included
linspace(start, stop, num) ==
    [k \in 1..num |->
        IF num = 1 THEN start
        ELSE start + ((k - 1) * (stop - start)) \div (num - 1)]

\* the miss branch of _get_fine_grid: axes, template, result
build_grid(bounds, crs) ==
    LET minx == bounds[1]
        miny == bounds[2]
        maxx == bounds[3]
        maxy == bounds[4]
        ncols == ceil_div(maxx - minx, output_cell_size)
        nrows == ceil_div(maxy - miny, output_cell_size)
        xs == linspace(minx, minx + ncols * output_cell_size, ncols + 1)
        ys == linspace(miny, miny + nrows * output_cell_size, nrows + 1)
        template == [shape |-> <<Len(ys), Len(xs)>>, lat |-> ys, lon |-> xs,
                     crs |-> crs]
    IN [x_grid |-> xs, y_grid |-> ys, template |-> template, bounds |-> bounds]

\* mutant: with a grid in the cache, a lookup is answered with a stored grid
\* whatever its bounding box
get_fine_grid_nearby(cache, bounds, crs) ==
    IF DOMAIN cache # {}
    THEN [ret |-> cache[CHOOSE b \in DOMAIN cache : TRUE], cache |-> cache,
          cached |-> TRUE]
    ELSE LET r == build_grid(bounds, crs)
         IN [ret |-> r, cache |-> [b \in {bounds} |-> r], cached |-> FALSE]

\* mutant: the grid is built and stored on every call
get_fine_grid_rebuilt(cache, bounds, crs) ==
    LET r == build_grid(bounds, crs)
    IN [ret |-> r,
        cache |-> [b \in DOMAIN cache \cup {bounds} |->
                      IF b = bounds THEN r ELSE cache[b]],
        cached |-> FALSE]

\* _get_fine_grid(shp_main, shp_crs) on the cache `cache`: what it returns,
\* the cache it leaves, and whether the entry came from the cache
get_fine_grid(cache, bounds, crs) ==
    IF bounds \in DOMAIN cache
    THEN [ret |-> cache[bounds], cache |-> cache, cached |-> TRUE]
    ELSE LET r == build_grid(bounds, crs)
         IN [ret |-> r,
             cache |-> [b \in DOMAIN cache \cup {bounds} |->
                           IF b = bounds THEN r ELSE cache[b]],
             cached |-> FALSE]

\* idkab.crs of the static shapefile
shp_crs == "EPSG:4326"

\* total_bounds of a region: minx <= maxx, miny <= maxy
Boxes ==
    {b \in (0..MaxCoord) \X (0..MaxCoord) \X (0..MaxCoord) \X (0..MaxCoord) :
        b[1] <= b[3] /\ b[2] <= b[4]}

BuildInit ==
    /\ shp_main \in Boxes
    /\ grid_cache = <<>> /\ cache_origin = <<>> /\ basemap_cache = <<>>
    /\ uploads = 0 /\ builds = 0 /\ fine = Pending
    /\ CatIdle /\ CountIdle /\ ScoreIdle
    /\ MapIdle /\ ThreadIdle /\ IdwIdle
    /\ RegionIdle /\ DataIdle /\ BaseIdle /\ ParIdle

\* fine = _get_fine_grid(ctx['shp_main'], ctx['shp_crs']) in create_map, with
\* the history of the entry: the box, the station coordinates and the upload
\* of the call that built it, and the number of that build
LookupGrid(bounds) ==
    LET call == get_fine_grid(grid_cache, bounds, shp_crs)
        origin == IF call.cached THEN cache_origin[call.ret.bounds]
                  ELSE [bounds |-> bounds, lon |-> lon_full', lat |-> lat_full',
                        upload |-> uploads, build |-> builds + 1]
    IN /\ grid_cache' = call.cache
       /\ cache_origin' = [b \in DOMAIN call.cache |->
                              IF b \in DOMAIN cache_origin THEN cache_origin[b]
                              ELSE origin]
       /\ builds' = IF call.cached THEN builds ELSE builds + 1
       /\ fine' = [tag |-> "return", val |-> call.ret, cached |-> call.cached,
                   origin |-> origin]

\* the first _get_fine_grid call of a session
GetFineGrid ==
    /\ fine = Pending
    /\ UNCHANGED <<shp_main, basemap_cache, uploads,
                   catVars, countVars, regionVars, dataVars, baseVars, parVars, scoreVars, mapVars, threadVars, idwVars>>
    /\ LookupGrid(shp_main)

BuildNext == GetFineGrid

SpecBuild == BuildInit /\ [][BuildNext]_vars

\* an axis running from `low` in steps of one cell over `high`, overshooting
\* it by less than a cell
Covers(axis, low, high) ==
    LET n == Len(axis) - 1
    IN /\ n >= 0
       /\ \A k \in DOMAIN axis : axis[k] = low + (k - 1) * output_cell_size
       /\ n * output_cell_size >= high - low
       /\ (n - 1) * output_cell_size < high - low \/ n = 0
       /\ axis[Len(axis)] >= high
       /\ axis[Len(axis)] - high < output_cell_size

(* C14: for every bounding box (minx, miny, maxx, maxy), _get_fine_grid
   builds axes with ncols = ceil((maxx-minx)/cell) and
   nrows = ceil((maxy-miny)/cell) running from minx to minx+ncols*cell and
   from miny to miny+nrows*cell, so the grid covers the whole bounding box
   and its high end exceeds maxx (resp. maxy) by less than one cell. *)
T_C14_GridCoversBox ==
    (fine # Pending /\ fine.tag = "return" /\ ~fine.cached) =>
        /\ Covers(fine.val.x_grid, shp_main[1], shp_main[3])
        /\ Covers(fine.val.y_grid, shp_main[2], shp_main[4])

W_C14_PartialCell ==
    /\ fine # Pending
    /\ shp_main = <<1, 0, 8, 6>>
    /\ fine.val.x_grid = <<1, 4, 7, 10>>
    /\ fine.val.y_grid = <<0, 3, 6>>

\* a bounding box of no width or no height
Degenerate(b) == b[1] = b[3] \/ b[2] = b[4]

(* C15: for a degenerate bounding box (zero width or zero height), the grid
   builder fails with an error instead of returning a grid, and no entry for
   that bounding box is stored in the grid cache. *)
CE_C15_DegenerateBoxRejected ==
    (fine # Pending /\ Degenerate(shp_main)) =>
        /\ fine.tag = "raise"
        /\ shp_main \notin DOMAIN grid_cache

(***************************************************************************)
(* A session: uploads, map runs over several regions and station tables,   *)
(* and the two cache-clearing functions, which the package exports and     *)
(* which nothing in the package calls.                                     *)
(***************************************************************************)
MaxUploads == 2     \* upload_files() calls in a session
MaxBuilds == 3      \* grids built in a session

\* the regions mapped in a session, by their bounding boxes
Regions == {<<0, 0, 6, 3>>, <<1, 0, 8, 6>>, <<0, 0, 0, 1>>}

\* the station tables create_map is handed: the forecast and the analysis
\* file have different nodes
Tables == {[lon |-> <<0, 2>>, lat |-> <<0, 2>>],
           [lon |-> <<0, 4, 4>>, lat |-> <<0, 0, 2>>]}

SessionInit ==
    /\ shp_main = <<>>
    /\ lon_full = <<>> /\ lat_full = <<>>
    /\ values_full = <<>> /\ cfg_interpolation_method = "absent"
    /\ method = "None" /\ interpolated = Pending /\ grid_values = <<>>
    /\ grid_cache = <<>> /\ cache_origin = <<>> /\ basemap_cache = <<>>
    /\ uploads = 0 /\ builds = 0 /\ fine = Pending
    /\ CatIdle /\ CountIdle /\ ScoreIdle /\ ThreadIdle /\ IdwIdle
    /\ RegionIdle /\ DataIdle /\ BaseIdle /\ ParIdle

\* upload_files(): the file names are reset, clear_data_cache() is called and
\* new files are uploaded; neither _grid_cache nor _basemap_cache is touched
UploadFiles ==
    /\ uploads < MaxUploads
    /\ uploads' = uploads + 1
    /\ fine' = Pending
    /\ UNCHANGED <<shp_main, grid_cache, cache_origin, basemap_cache, builds,
                   catVars, countVars, regionVars, dataVars, baseVars, parVars, scoreVars, mapVars, threadVars, idwVars>>

\* get_basemap(wilayah): loaded on the first use of a region, kept afterwards;
\* a region stands for its cache key, the history is the upload it was loaded in
get_basemap(cache, w) ==
    IF w \in DOMAIN cache THEN cache
    ELSE [k \in DOMAIN cache \cup {w} |->
             IF k = w THEN [upload |-> uploads] ELSE cache[k]]

\* execute() for a raster map: clear_data_cache(), a processor, create_map
\* with _prepare_map_context (get_basemap) and _get_fine_grid
Execute(w, t) ==
    /\ w \in DOMAIN grid_cache \/ builds < MaxBuilds
    /\ shp_main' = w
    /\ lon_full' = t.lon
    /\ lat_full' = t.lat
    /\ basemap_cache' = get_basemap(basemap_cache, w)
    /\ LookupGrid(w)
    /\ UNCHANGED <<uploads, values_full, cfg_interpolation_method, method,
                   interpolated, grid_values, catVars, countVars, regionVars, dataVars, baseVars, parVars, scoreVars,
                   threadVars,
                   idwVars>>

\* clear_spatial_cache()
ClearSpatialCache ==
    /\ grid_cache' = <<>>
    /\ cache_origin' = <<>>
    /\ UNCHANGED <<shp_main, basemap_cache, uploads, builds, fine,
                   catVars, countVars, regionVars, dataVars, baseVars, parVars, scoreVars, mapVars, threadVars, idwVars>>

\* clear_basemap_cache()
ClearBasemapCache ==
    /\ basemap_cache' = <<>>
    /\ UNCHANGED <<shp_main, grid_cache, cache_origin, uploads, builds, fine,
                   catVars, countVars, regionVars, dataVars, baseVars, parVars, scoreVars, mapVars, threadVars, idwVars>>

SessionNext ==
    \/ UploadFiles
    \/ \E w \in Regions, t \in Tables : Execute(w, t)
    \/ ClearSpatialCache
    \/ ClearBasemapCache

SpecSession == SessionInit /\ [][SessionNext]_vars

\* the last lookup was answered from the cache
Hit == fine # Pending /\ fine.cached

(* C16: the spatial cache returns a stored entry only for the exact key it
   was stored under, where the key consists of the bounding box and the byte
   content of the station coordinate arrays: after any sequence of lookups, a
   lookup whose bounding box or station coordinates differ from those of a
   stored entry never receives that entry. *)
CE_C16_KeyHoldsCoordinates ==
    Hit =>
        /\ fine.origin.bounds = shp_main
        /\ fine.origin.lon = lon_full
        /\ fine.origin.lat = lat_full

(* C16 as amended: the grid cache returns a stored entry only for the exact
   key it was stored under, where the key is the bounding box alone: a lookup
   whose bounding box differs from that of a stored entry never receives that
   entry.  The station coordinate arrays are no part of the key and of the
   entry (x_grid, y_grid, template, bounds), so lookups with the same
   bounding box and different station coordinates receive the same entry. *)
T_C16_KeyIsBoundingBox ==
    /\ \A b \in DOMAIN grid_cache :
          /\ grid_cache[b].bounds = b
          /\ grid_cache[b] = build_grid(b, shp_crs)
          /\ cache_origin[b].bounds = b
    /\ fine # Pending =>
          /\ fine.val.bounds = shp_main
          /\ fine.origin.bounds = shp_main
          /\ fine.val = build_grid(shp_main, shp_crs)

W_C16_OtherStationsSameBox ==
    /\ Hit
    /\ fine.origin.bounds = shp_main
    /\ fine.origin.lon # lon_full
    /\ fine.origin.upload = uploads
    /\ Cardinality(DOMAIN grid_cache) = 2

\* every entry of the grid cache is still there, as it was and from the
\* build it came from
EntriesKept ==
    \A b \in DOMAIN grid_cache :
        /\ b \in DOMAIN grid_cache'
        /\ grid_cache'[b] = grid_cache[b]
        /\ cache_origin'[b] = cache_origin[b]

(* C17: a grid cache entry is created on the first _get_fine_grid call for a
   bounding box; every later call with the same bounding box returns that
   same stored entry unchanged, without rebuilding it, until
   clear_spatial_cache is called; clear_spatial_cache removes every entry,
   and no other operation removes or replaces one. *)
T_C17_EntryLifetime ==
    [][/\ \A w \in Regions, t \in Tables :
             Execute(w, t) =>
                 IF w \in DOMAIN grid_cache
                 THEN /\ fine'.cached
                      /\ fine'.val = grid_cache[w]
                      /\ fine'.origin = cache_origin[w]
                      /\ builds' = builds
                      /\ grid_cache' = grid_cache
                 ELSE /\ ~fine'.cached
                      /\ builds' = builds + 1
                      /\ DOMAIN grid_cache' = DOMAIN grid_cache \cup {w}
                      /\ grid_cache'[w] = fine'.val
                      /\ cache_origin'[w].build = builds'
       /\ ClearSpatialCache => DOMAIN grid_cache' = {}
       /\ ~ClearSpatialCache => EntriesKept]_vars

W_C17_FirstEntryReturnedLater ==
    /\ Hit
    /\ builds = 2
    /\ uploads = 1
    /\ fine.origin.build = 1
    /\ fine.origin.upload = 0
    /\ fine.val = grid_cache[shp_main]

(* C18: whenever the station source changes identity through a new upload
   (upload_files), the orchestrating layer calls clear_spatial_cache and the
   region-cache clear before the next map is interpolated, so no
   interpolation after an upload uses a spatial or region cache entry
   created before that upload. *)
CE_C18_CachesClearedOnUpload ==
    fine # Pending =>
        /\ fine.origin.upload = uploads
        /\ shp_main \in DOMAIN basemap_cache =>
              basemap_cache[shp_main].upload = uploads

(***************************************************************************)
(* Concurrent callers.  Each thread runs _get_fine_grid statement by       *)
(* statement; clear_spatial_cache can run between any two statements.  A   *)
(* statement that reads or writes the module-level dictionary is one step. *)
(***************************************************************************)
MaxThreads == 2     \* threads calling _get_fine_grid

Threads == 1..MaxThreads

\* a local variable that is not assigned yet
Unset == <<>>
NoTemplate == [shape |-> <<>>, lat |-> <<>>, lon |-> <<>>, crs |-> "unset"]
NoResult == [x_grid |-> Unset, y_grid |-> Unset, template |-> NoTemplate,
             bounds |-> Unset]
NoFrame == [bounds |-> Unset, x_grid |-> Unset, y_grid |-> Unset,
            template |-> NoTemplate, result |-> NoResult, ret |-> Pending]

\* mutant: the entry is stored in the cache before its parts are computed
after_storing_first(stmt) ==
    CASE stmt = "check" -> "store"
      [] stmt = "store" -> "axes"
      [] stmt = "axes" -> "template"
      [] stmt = "template" -> "result"
      [] stmt = "result" -> "return"
      [] OTHER -> "done"

\* the statements of the miss branch in the order of the source
after(stmt) ==
    CASE stmt = "check" -> "axes"
      [] stmt = "axes" -> "template"
      [] stmt = "template" -> "result"
      [] stmt = "result" -> "store"
      [] stmt = "store" -> "return"
      [] OTHER -> "done"

ThreadInit ==
    /\ pc = [t \in Threads |-> "idle"]
    /\ frame = [t \in Threads |-> NoFrame]
    /\ CatIdle /\ CountIdle /\ ScoreIdle
    /\ MapIdle /\ GridIdle /\ IdwIdle
    /\ RegionIdle /\ DataIdle /\ BaseIdle /\ ParIdle

Local(t, f) == frame' = [frame EXCEPT ![t] = f]
Goto(t, stmt) == pc' = [pc EXCEPT ![t] = stmt]
CacheKept == UNCHANGED <<gridVars, catVars, countVars, regionVars, dataVars, baseVars, parVars, scoreVars, mapVars, idwVars>>
OthersKept ==
    UNCHANGED <<shp_main, cache_origin, basemap_cache, uploads, builds, fine,
                catVars, countVars, regionVars, dataVars, baseVars, parVars, scoreVars, regionVars, dataVars, baseVars, parVars, mapVars, idwVars>>

\* bounds = tuple(shp_main.total_bounds)
Call(t, b) ==
    /\ pc[t] = "idle"
    /\ Local(t, [NoFrame EXCEPT !.bounds = b])
    /\ Goto(t, "check")
    /\ CacheKept

\* if bounds in _grid_cache:
Check(t) ==
    /\ pc[t] = "check"
    /\ Goto(t, IF frame[t].bounds \in DOMAIN grid_cache THEN "read"
               ELSE after("check"))
    /\ UNCHANGED frame
    /\ CacheKept

\* return _grid_cache[bounds]
Read(t) ==
    /\ pc[t] = "read"
    /\ Local(t, [frame[t] EXCEPT !.ret =
                    IF frame[t].bounds \in DOMAIN grid_cache
                    THEN Return(grid_cache[frame[t].bounds])
                    ELSE Raise("KeyError")])
    /\ Goto(t, "done")
    /\ CacheKept

\* ncols, nrows, x_grid, y_grid
Axes(t) ==
    /\ pc[t] = "axes"
    /\ LET g == build_grid(frame[t].bounds, shp_crs)
       IN Local(t, [frame[t] EXCEPT !.x_grid = g.x_grid, !.y_grid = g.y_grid])
    /\ Goto(t, after("axes"))
    /\ CacheKept

\* template = xr.DataArray(...), set_spatial_dims, write_crs
Template(t) ==
    /\ pc[t] = "template"
    /\ Local(t, [frame[t] EXCEPT !.template =
                    [shape |-> <<Len(frame[t].y_grid), Len(frame[t].x_grid)>>,
                     lat |-> frame[t].y_grid, lon |-> frame[t].x_grid,
                     crs |-> shp_crs]])
    /\ Goto(t, after("template"))
    /\ CacheKept

\* result = {'x_grid': ..., 'y_grid': ..., 'template': ..., 'bounds': ...}
Result(t) ==
    /\ pc[t] = "result"
    /\ Local(t, [frame[t] EXCEPT !.result =
                    [x_grid |-> frame[t].x_grid, y_grid |-> frame[t].y_grid,
                     template |-> frame[t].template, bounds |-> frame[t].bounds]])
    /\ Goto(t, after("result"))
    /\ CacheKept

\* _grid_cache[bounds] = result
Store(t) ==
    /\ pc[t] = "store"
    /\ grid_cache' = [b \in DOMAIN grid_cache \cup {frame[t].bounds} |->
                         IF b = frame[t].bounds THEN frame[t].result
                         ELSE grid_cache[b]]
    /\ Goto(t, after("store"))
    /\ UNCHANGED frame
    /\ OthersKept

\* return result
ReturnResult(t) ==
    /\ pc[t] = "return"
    /\ Local(t, [frame[t] EXCEPT !.ret = Return(frame[t].result)])
    /\ Goto(t, "done")
    /\ CacheKept

\* the caller takes the value; the thread is free for its next call
Finish(t) ==
    /\ pc[t] = "done"
    /\ Local(t, NoFrame)
    /\ Goto(t, "idle")
    /\ CacheKept

\* clear_spatial_cache() in yet another thread: _grid_cache = {}
ClearConcurrently ==
    /\ grid_cache' = <<>>
    /\ UNCHANGED <<pc, frame>>
    /\ OthersKept

ThreadNext ==
    \/ \E t \in Threads, b \in Regions : Call(t, b)
    \/ \E t \in Threads : Check(t)
    \/ \E t \in Threads : Read(t)
    \/ \E t \in Threads : Axes(t)
    \/ \E t \in Threads : Template(t)
    \/ \E t \in Threads : Result(t)
    \/ \E t \in Threads : Store(t)
    \/ \E t \in Threads : ReturnResult(t)
    \/ \E t \in Threads : Finish(t)
    \/ ClearConcurrently

SpecThreads == ThreadInit /\ [][ThreadNext]_vars

\* an entry with all four parts set for the key b
FullyBuilt(e, b) ==
    /\ e.bounds = b
    /\ e.x_grid # Unset /\ e.y_grid # Unset
    /\ e.x_grid[1] = b[1] /\ e.y_grid[1] = b[2]
    /\ e.template # NoTemplate
    /\ e.template.shape = <<Len(e.y_grid), Len(e.x_grid)>>
    /\ e.template.lon = e.x_grid /\ e.template.lat = e.y_grid
    /\ e = build_grid(b, shp_crs)

(* C19: in every interleaving of concurrent _get_fine_grid calls (same or
   different bounding boxes) with clear_spatial_cache calls, each key present
   in the grid cache maps to a fully built entry (x_grid, y_grid, template
   and bounds all set, bounds equal to the key); a partially built entry is
   never visible to any reader. *)
T_C19_AtomicPublication ==
    /\ \A b \in DOMAIN grid_cache : FullyBuilt(grid_cache[b], b)
    /\ \A t \in DOMAIN frame :
          (frame[t].ret # Pending /\ frame[t].ret.tag = "return") =>
              FullyBuilt(frame[t].ret.val, frame[t].bounds)

W_C19_TwoThreadsMissSameBox ==
    /\ pc = <<"template", "done">>
    /\ frame[1].bounds = frame[2].bounds
    /\ frame[1].bounds \in DOMAIN grid_cache
    /\ frame[2].ret # Pending /\ frame[2].ret.tag = "return"
    /\ frame[1].result = NoResult

(***************************************************************************)
(* idw_numba for one grid cell.  Distances are whole multiples of the      *)
(* length eps^(1/power), eps = 1e-10; in that unit dists^power + eps is    *)
(* (d^power + 1) * eps, and a weight is 1 / (d^power + 1) in units of      *)
(* 1 / eps, a factor that w_sum and val_sum share.                         *)
(***************************************************************************)
MaxNeighbours == 3  \* k, the neighbours of a cell
MaxDist == 3        \* distances range over 0 .. MaxDist

StationValues == {0, 10, 20}

RECURSIVE pow(_, _)
pow(d, p) == IF p = 0 THEN 1 ELSE d * pow(d, p - 1)

\* a float division under numba's error model: a zero divisor raises
numba_div(x, y) ==
    IF y.kind = "num" /\ y.num = 0 THEN Raise("ZeroDivisionError")
    ELSE Return(FDiv(x, y))

\* w = 1.0 / (dists[i, j]**power + 1e-10)
weight(d, p) == numba_div(IntF(1), IntF(pow(d, p) + 1))

\* the loop over j and result[i] = val_sum / w_sum
idw_numba(vals, ds, p) ==
    LET k == Len(ds)
        w == [j \in 1..k |-> weight(ds[j], p)]
    IN IF \E j \in 1..k : w[j].tag = "raise" THEN Raise("ZeroDivisionError")
       ELSE LET w_sum == FSum([j \in 1..k |-> w[j].val], k)
                val_sum == FSum([j \in 1..k |-> FMul(w[j].val, IntF(vals[j]))], k)
            IN numba_div(val_sum, w_sum)

\* the k nearest stations of a cell, nearest first
IdwInit ==
    /\ \E k \in 1..MaxNeighbours :
          /\ dists \in [1..k -> 0..MaxDist]
          /\ values \in [1..k -> StationValues]
    /\ \A j \in 1..(Len(dists) - 1) : dists[j] <= dists[j + 1]
    /\ power \in {1, 2}
    /\ result = Pending
    /\ CatIdle /\ CountIdle /\ ScoreIdle
    /\ MapIdle /\ GridIdle /\ ThreadIdle
    /\ RegionIdle /\ DataIdle /\ BaseIdle /\ ParIdle

IdwNumba ==
    /\ result = Pending
    /\ result' = idw_numba(values, dists, power)
    /\ UNCHANGED <<dists, values, power, catVars, countVars, regionVars, dataVars, baseVars, parVars, scoreVars, mapVars,
                   gridVars, threadVars>>

IdwNext == IdwNumba

SpecIdw == IdwInit /\ [][IdwNext]_vars

(* C20: for a grid cell whose nearest station is at distance 0, idw_numba
   performs no division by zero and returns a value equal to that station's
   value, for every set of values and distances of the other k-1
   neighbours. *)
CE_C20_CoincidentStationValue ==
    (result # Pending /\ dists[1] = 0) =>
        /\ result.tag = "return"
        /\ result.val = IntF(values[1])

(* C26: a cache lookup that runs concurrently with a cache clear never
   fails: in every interleaving of _get_fine_grid(bounds) with
   clear_spatial_cache, the lookup either returns a fully built entry for
   bounds or rebuilds one, and never raises (for example a missing-key error
   between the membership test and the read of the entry). *)
CE_C26_LookupNeverRaises ==
    \A t \in DOMAIN frame :
        frame[t].ret # Pending =>
            /\ frame[t].ret.tag = "return"
            /\ FullyBuilt(frame[t].ret.val, frame[t].bounds)

\* the non-negative numbers among the cells, and their order
NonNegative == {v \in CellValues : v.kind = "num" /\ v.w >= 0}
NotAbove(a, b) == a.w < b.w \/ (a.w = b.w /\ a.f <= b.f)

(* C27: categorize_ch and categorize_index are monotone non-decreasing over
   all non-negative numeric values, including non-integer values lying
   between consecutive integer bounds (such as 100.5 or 20.5): for
   0 <= a <= b, categorize_ch(a) <= categorize_ch(b) and
   categorize_index(a) <= categorize_index(b). *)
CE_C27_Monotone ==
    value \in NonNegative =>
        \A b \in NonNegative :
            NotAbove(value, b) =>
                /\ ch_ret # Pending => ch_ret.val <= categorize_ch(b).val
                /\ index_ret # Pending => index_ret.val <= categorize_index(b).val

\* the monthly rainfall-amount labels taken as the categories 1..4
MonthlyLabels == <<Named("Rendah"), Named("Menengah"), Named("Tinggi"),
                   Named("Sangat Tinggi")>>

(* C28: for every non-negative integer rainfall amount v, the monthly
   rainfall-amount bin in which count_points counts v (Rendah, Menengah,
   Tinggi, Sangat Tinggi taken as 1..4) is the same category as
   categorize_ch(v), including at the bin edges 100, 300 and 500. *)
CE_C28_BinsAgreeWithCategorizer ==
    (/\ cfg_tipe = "Curah Hujan" /\ cfg_skala = "Bulanan"
     /\ counts # Pending
     /\ \A k \in DOMAIN arr : arr[k].kind = "num" /\ arr[k].f = 0 /\ arr[k].w >= 0) =>
        \A c \in DOMAIN MonthlyLabels :
            counts.val[MonthlyLabels[c]] =
                Cardinality({k \in DOMAIN arr : categorize_ch(arr[k]).val = c})

\* the source grid described from the stations: its parallels and meridians,
\* the stations on a node, and the value the node received (the last one)
Parallels == Ascending(SeqRange(lat_full))
Meridians == Ascending(SeqRange(lon_full))
Nodes == (DOMAIN Parallels) \X (DOMAIN Meridians)
StationsOn(n) ==
    {k \in DOMAIN values_full :
        lat_full[k] = Parallels[n[1]] /\ lon_full[k] = Meridians[n[2]]}
ReceivedOn(n) ==
    values_full[CHOOSE k \in StationsOn(n) : \A j \in StationsOn(n) : j <= k]
ValidNode(n) == StationsOn(n) # {} /\ ReceivedOn(n) # NaNF
ValidNodes == {n \in Nodes : ValidNode(n)}

(* C25: in _interpolate_regular_grid, every cell of the reconstructed source
   grid that received no station value is filled with the value of its
   nearest cell that did receive one; provided at least one station value is
   valid, no source-grid cell is missing when the resampling step starts, and
   cells that did receive a value keep it unchanged. *)
T_C25_NearestValidFill ==
    interpolated # Pending =>
        /\ DOMAIN grid_values = Nodes
        /\ \A n \in Nodes :
              IF ValidNode(n) THEN grid_values[n] = ReceivedOn(n)
              ELSE IF ValidNodes = {} THEN grid_values[n] = NaNF
              ELSE \E v \in ValidNodes :
                      /\ grid_values[n] = ReceivedOn(v)
                      /\ \A u \in ValidNodes : sqdist(n, v) <= sqdist(n, u)
        /\ ValidNodes # {} => \A n \in Nodes : grid_values[n] # NaNF

W_C25_OceanNodeFilled ==
    /\ interpolated # Pending
    /\ lon_full = <<0, 4, 4>> /\ lat_full = <<0, 0, 2>>
    /\ values_full = <<IntF(10), NaNF, IntF(40)>>
    /\ grid_values[<<1, 1>>] = IntF(10)
    /\ grid_values[<<1, 2>>] = IntF(40)
    /\ grid_values[<<2, 1>>] = IntF(10)
    /\ grid_values[<<2, 2>>] = IntF(40)

(***************************************************************************)
(* Region aggregation: the station points are clipped to the region's      *)
(* polygons and counted per province and per kabupaten, by create_map and  *)
(* create_scatter_map (through _prepare_map_context) and by                *)
(* create_hth_plot.  A polygon is a closed box <<minx, miny, maxx, maxy>>   *)
(* with integer corners, a station an integer point.                       *)
(***************************************************************************)
MaxClipPoints == 2  \* stations handed to one call
MaxLon == 5         \* station longitudes are 0 .. MaxLon
MaxLat == 5         \* station latitudes are 0 .. MaxLat

\* the rows of shp_main: two kabupaten of one province share the boundary
\* x = 2, the third lies in another province across the boundary y = 2
shp_rows ==
    { [PROVINSI |-> "P1", KABUPATEN |-> "K1", geometry |-> <<0, 0, 2, 4>>],
      [PROVINSI |-> "P1", KABUPATEN |-> "K2", geometry |-> <<2, 0, 4, 2>>],
      [PROVINSI |-> "P2", KABUPATEN |-> "K3", geometry |-> <<2, 2, 4, 4>>] }

StationPoints == (0 .. MaxLon) \X (0 .. MaxLat)

\* shapely intersects: the point shares a point with the closed polygon
intersects(p, box) ==
    /\ box[1] <= p[1] /\ p[1] <= box[3]
    /\ box[2] <= p[2] /\ p[2] <= box[4]

\* shapely within: the point lies in the interior of the polygon; a point of
\* the boundary is within nothing
within(p, box) ==
    /\ box[1] < p[1] /\ p[1] < box[3]
    /\ box[2] < p[2] /\ p[2] < box[4]

\* gpd.clip(gdf, shp_main): the points that intersect the union of the rows
clip(points) ==
    LET kept(p) == \E row \in shp_rows : intersects(p, row.geometry)
    IN SelectSeq(points, kept)

\* gpd.sjoin(clipped, shp_main[[...]], predicate='within'): one row for each
\* pair of a point and a polygon it is within
sjoin(points) ==
    {<<i, row>> \in (DOMAIN points) \X shp_rows : within(points[i], row.geometry)}

\* for name, group in joined.groupby(column): counts[name] = {'total': len(group)}
groupby_total(joined, column) ==
    LET names == {j[2][column] : j \in joined}
    IN [name \in names |-> Cardinality({j \in joined : j[2][column] = name})]

Warning == "Warning: No points within boundary, using all points"

RegionInit ==
    /\ gdf \in UNION {[1 .. n -> StationPoints] : n \in 0 .. MaxClipPoints}
    /\ caller = "None" /\ status = <<>>
    /\ clipped_gdf = Pending
    /\ province_counts = Pending /\ kabupaten_counts = Pending
    /\ CatIdle /\ CountIdle /\ ScoreIdle
    /\ MapIdle /\ GridIdle /\ ThreadIdle /\ IdwIdle
    /\ DataIdle /\ BaseIdle /\ ParIdle

RegionKept ==
    UNCHANGED <<gdf, catVars, countVars, scoreVars, mapVars, gridVars,
                threadVars, idwVars, dataVars, baseVars, parVars>>

\* _prepare_map_context(df, value, jenis, info)
prepare_map_context(points) ==
    [clipped_gdf |-> clip(points),
     status |-> <<"Processing", "Basemap loaded", "Clipping data done">>]

\* create_map, on the runs whose interpolation returns: the station table has
\* two distinct longitudes and latitudes at least
CreateMap ==
    /\ caller = "None"
    /\ Cardinality({gdf[i][1] : i \in DOMAIN gdf}) >= 2
    /\ Cardinality({gdf[i][2] : i \in DOMAIN gdf}) >= 2
    /\ LET ctx == prepare_map_context(gdf)
           joined == sjoin(ctx.clipped_gdf)
       IN /\ caller' = "create_map"
          /\ clipped_gdf' = ctx.clipped_gdf
          /\ province_counts' = groupby_total(joined, "PROVINSI")
          /\ kabupaten_counts' = groupby_total(joined, "KABUPATEN")
          /\ status' = ctx.status \o
                <<"Starting interpolation", "Interpolation complete",
                  "Applying colormap", "Colormap applied",
                  "Counting points by region", "Point counting complete",
                  "Creating plot", "Map creation complete">>
    /\ RegionKept

\* create_scatter_map: plots the clipped points, counts nothing
CreateScatterMap ==
    /\ caller = "None"
    /\ LET ctx == prepare_map_context(gdf)
       IN /\ caller' = "create_scatter_map"
          /\ clipped_gdf' = ctx.clipped_gdf
          /\ status' = ctx.status \o
                <<"Creating scatter plot", "Map creation complete">>
    /\ UNCHANGED <<province_counts, kabupaten_counts>>
    /\ RegionKept

\* create_hth_plot(df, info)
CreateHthPlot ==
    /\ caller = "None"
    /\ LET clipped == clip(gdf)
           used == IF Len(clipped) = 0 THEN gdf ELSE clipped
           joined == sjoin(used)
       IN /\ caller' = "create_hth_plot"
          /\ clipped_gdf' = used
          /\ province_counts' = groupby_total(joined, "PROVINSI")
          /\ kabupaten_counts' = groupby_total(joined, "KABUPATEN")
          /\ status' = <<"Basemap loaded",
                         "Clipped to " \o ToString(Len(clipped)) \o " stations">>
                \o (IF Len(clipped) = 0 THEN <<Warning>> ELSE <<>>)
                \o <<"Counting points by region", "Creating plot",
                     "HTH plot creation complete">>
    /\ RegionKept

RegionNext == CreateMap \/ CreateScatterMap \/ CreateHthPlot

SpecRegion == RegionInit /\ [][RegionNext]_vars

\* C22: whenever the clip of the station points is empty, a warning is among
\* the status messages of the call, on each of the three callers.
\* Violated: _prepare_map_context reports "Clipping data done" and nothing
\* else, and create_map goes on to count the empty set.
CE_C22_EmptyClipWarned ==
    (caller # "None" /\ Len(clip(gdf)) = 0) =>
        \E k \in DOMAIN status : status[k] = Warning

\* the total over the groups of one counting
Total(cnt) ==
    LET RECURSIVE sum(_)
        sum(S) == IF S = {} THEN 0
                  ELSE LET n == CHOOSE n \in S : TRUE IN cnt[n] + sum(S \ {n})
    IN sum(DOMAIN cnt)

\* C24: after the counting the totals over the provinces and over the
\* kabupaten both equal the number of clipped points.
\* Violated: a station on the boundary shared by two polygons is within
\* neither of them, and is counted nowhere.
CE_C24_EveryPointCountedOnce ==
    (caller \in {"create_map", "create_hth_plot"}) =>
        /\ Total(province_counts) = Len(clipped_gdf)
        /\ Total(kabupaten_counts) = Len(clipped_gdf)

(***************************************************************************)
(* Station tables: load_prakiraan, load_analisis (src/Main/utils.py) and   *)
(* load_hth (src/Main/hth_processor.py) read the configured file once and  *)
(* keep the table in a module-level cache.  A table is identified by the   *)
(* path it was read from; "None" is Python's None.                         *)
(***************************************************************************)
Kinds == {"prakiraan", "analisis", "hth"}
Paths == {"a.csv", "b.xlsx", "c.txt"}

\* filepath.endswith('.csv'), filepath.endswith(('.xlsx', '.xls')): the
\* suffix decides which reader is called
suffix_of(path) ==
    CASE path = "a.csv" -> "csv"
      [] path = "b.xlsx" -> "xlsx"
      [] OTHER -> "txt"

\* mutant: an unset file is read as an empty table
load_defaulted(file, cache) ==
    IF cache # "None" THEN [ret |-> Return(cache), cache |-> cache, read |-> "None"]
    ELSE IF file = "None"
         THEN [ret |-> Return("empty"), cache |-> "empty", read |-> "None"]
    ELSE [ret |-> Return(file), cache |-> file, read |-> file]

\* load_prakiraan / load_analisis / load_hth: the cached table if there is
\* one; otherwise the configured file, read by pd.read_csv or pd.read_excel
load(file, cache) ==
    IF cache # "None" THEN [ret |-> Return(cache), cache |-> cache, read |-> "None"]
    ELSE IF file = "None"
         THEN [ret |-> Raise("ValueError"), cache |-> cache, read |-> "None"]
    ELSE IF suffix_of(file) \in {"csv", "xlsx"}
         THEN [ret |-> Return(file), cache |-> file, read |-> file]
    ELSE [ret |-> Raise("FileNotFoundError"), cache |-> cache, read |-> "None"]

\* clear_data_cache() resets the forecast and the analysis cache
clear_data_cache(cache) ==
    [k \in Kinds |-> IF k \in {"prakiraan", "analisis"} THEN "None" ELSE cache[k]]

DataInit ==
    /\ cfg_file = [k \in Kinds |-> "None"]
    /\ df_cache = [k \in Kinds |-> "None"]
    /\ load_ret = Pending
    /\ CatIdle /\ CountIdle /\ ScoreIdle
    /\ MapIdle /\ GridIdle /\ ThreadIdle /\ IdwIdle
    /\ RegionIdle /\ BaseIdle /\ ParIdle

DataKept ==
    UNCHANGED <<catVars, countVars, scoreVars, mapVars, gridVars, threadVars,
                idwVars, regionVars, baseVars, parVars>>

\* one call of a loader, seen from a configuration and a cache
Loaded(k, files, cache) ==
    LET call == load(files[k], cache[k])
    IN /\ df_cache' = [cache EXCEPT ![k] = call.cache]
       /\ load_ret' = [kind |-> k, file |-> files[k], cached |-> cache[k],
                       ret |-> call.ret, read |-> call.read]

\* cfg.file_prakiraan = ..., cfg.file_analisis = ..., cfg.file_hth = ...
SetFile(k, path) ==
    /\ cfg_file' = [cfg_file EXCEPT ![k] = path]
    /\ UNCHANGED <<df_cache, load_ret>>
    /\ DataKept

\* upload_files(): both paths are reset, the caches cleared, and the files
\* the maps of cfg.jenis_peta need are uploaded
UploadData(needs_prakiraan, needs_analisis, up1, up2) ==
    /\ cfg_file' = [cfg_file EXCEPT
                       !["prakiraan"] = IF needs_prakiraan THEN up1 ELSE "None",
                       !["analisis"] = IF needs_analisis THEN up2 ELSE "None"]
    /\ df_cache' = clear_data_cache(df_cache)
    /\ UNCHANGED load_ret
    /\ DataKept

\* clear_data_cache()
ClearDataCache ==
    /\ df_cache' = clear_data_cache(df_cache)
    /\ UNCHANGED <<cfg_file, load_ret>>
    /\ DataKept

\* clear_hth_cache()
ClearHthCache ==
    /\ df_cache' = [df_cache EXCEPT !["hth"] = "None"]
    /\ UNCHANGED <<cfg_file, load_ret>>
    /\ DataKept

\* load_prakiraan(), load_analisis(), load_hth() called by the user
Load(k) ==
    /\ Loaded(k, cfg_file, df_cache)
    /\ UNCHANGED cfg_file
    /\ DataKept

\* execute(peta, ...): the caches are cleared unless peta is 'HTH', then the
\* processor of the map loads its table
ExecuteData(peta) ==
    LET k == CASE peta = "Prakiraan" -> "prakiraan"
               [] peta = "Analisis" -> "analisis"
               [] peta = "HTH" -> "hth"
        cache == IF peta # "HTH" THEN clear_data_cache(df_cache) ELSE df_cache
    IN /\ Loaded(k, cfg_file, cache)
       /\ UNCHANGED cfg_file
       /\ DataKept

DataNext ==
    \/ \E k \in Kinds, path \in Paths \cup {"None"} : SetFile(k, path)
    \/ \E np \in BOOLEAN, na \in BOOLEAN, up1 \in Paths, up2 \in Paths :
          UploadData(np, na, up1, up2)
    \/ ClearDataCache
    \/ ClearHthCache
    \/ \E k \in Kinds : Load(k)
    \/ \E peta \in {"Prakiraan", "Analisis", "HTH"} : ExecuteData(peta)

SpecData == DataInit /\ [][DataNext]_vars

\* C23: a call of load_prakiraan or load_analisis that finds no file
\* configured and no table cached raises, reads no file, and leaves the
\* cache empty.
T_C23_UnconfiguredLoadRaises ==
    (/\ load_ret # Pending
     /\ load_ret.kind \in {"prakiraan", "analisis"}
     /\ load_ret.file = "None" /\ load_ret.cached = "None") =>
        /\ load_ret.ret = Raise("ValueError")
        /\ load_ret.read = "None"
        /\ df_cache[load_ret.kind] = "None"

\* an unconfigured load_analisis, after the forecast file was uploaded
W_C23_AnalysisNotConfigured ==
    /\ load_ret # Pending
    /\ load_ret.kind = "analisis"
    /\ load_ret.file = "None" /\ load_ret.cached = "None"
    /\ cfg_file["prakiraan"] # "None"

\* C29: a table returned by a loader was read from the path configured at
\* the time of the call.
\* Violated: a cached table is returned whatever the path now configured.
CE_C29_TableFromCurrentPath ==
    (load_ret # Pending /\ load_ret.ret.tag = "return") =>
        load_ret.ret.val = load_ret.file

(***************************************************************************)
(* Basemap: load_basemap (src/static.py) selects the rows of the           *)
(* administrative table idkab that the requested names match.              *)
(***************************************************************************)
MaxNames == 2       \* names in one wilayah request

\* the rows of idkab.feather
idkab ==
    { [PROVINSI |-> "Jawa Timur", KABUPATEN |-> "Kota Malang"],
      [PROVINSI |-> "Jawa Timur", KABUPATEN |-> "Kabupaten Blitar"],
      [PROVINSI |-> "DI Yogyakarta", KABUPATEN |-> "Bantul"] }

Queries == {"Jawa Timur", "DI Yogyakarta", "Bantul", "Malang", "Blitar",
            "Bantool", "Atlantis"}

\* f"{prefix} {query}"; no query of the model starts with a prefix
prefixed(prefix, query) == prefix \o " " \o query

\* the fuzzy score of fuzzywuzzy for the names of the model: a misspelling
\* scores above the threshold against the name it misspells, with or
\* without a prefix
score(query, choice) ==
    IF query = choice THEN 100
    ELSE IF query \in {"Bantool", "Kota Bantool", "Kabupaten Bantool"}
            /\ choice = "Bantul" THEN 83
    ELSE 40

\* process.extractBests(query, choices, score_cutoff=threshold, limit=1)
extractBests(query, choices, threshold) ==
    LET above == {c \in choices : score(query, c) >= threshold}
    IN {c \in above : \A d \in above : score(query, d) <= score(query, c)}

prefixes == <<"Kota", "Kabupaten">>

\* flexible_match(query, choices, threshold=80); "None" is Python's None
flexible_match(query, choices) ==
    LET exact(k) == prefixed(prefixes[k], query) \in choices
        fuzzy(k) == extractBests(prefixed(prefixes[k], query), choices, 80) # {}
        best(q) == CHOOSE c \in extractBests(q, choices, 80) : TRUE
    IN IF query \in choices THEN query
       ELSE IF exact(1) THEN prefixed(prefixes[1], query)
       ELSE IF exact(2) THEN prefixed(prefixes[2], query)
       ELSE IF extractBests(query, choices, 80) # {} THEN best(query)
       ELSE IF fuzzy(1) THEN best(prefixed(prefixes[1], query))
       ELSE IF fuzzy(2) THEN best(prefixed(prefixes[2], query))
       ELSE "None"

\* the names of the list that match in one column, in order
matches_in(kolom, wilayah_list) ==
    LET unique_values == {row[kolom] : row \in idkab}
        found(q) == flexible_match(q, unique_values) # "None"
        hits == SelectSeq(wilayah_list, found)
    IN [k \in DOMAIN hits |-> flexible_match(hits[k], unique_values)]

\* load_basemap(wilayah): the first column in which a name matches selects
\* the rows, by that column and the names found so far
load_basemap(wilayah_list) ==
    LET p == matches_in("PROVINSI", wilayah_list)
        k == matches_in("KABUPATEN", wilayah_list)
        rows(kolom, found_wilayah) ==
            {row \in idkab : \E i \in DOMAIN found_wilayah :
                                 row[kolom] = found_wilayah[i]}
    IN IF p # <<>>
       THEN Return([shp_main |-> rows("PROVINSI", p), kolom |-> "PROVINSI",
                    found_wilayah |-> p])
       ELSE IF k # <<>>
       THEN Return([shp_main |-> rows("KABUPATEN", k), kolom |-> "KABUPATEN",
                    found_wilayah |-> k])
       ELSE Raise("ValueError")

BaseInit ==
    /\ wilayah \in UNION {[1 .. n -> Queries] : n \in 1 .. MaxNames}
    /\ basemap_ret = Pending
    /\ CatIdle /\ CountIdle /\ ScoreIdle
    /\ MapIdle /\ GridIdle /\ ThreadIdle /\ IdwIdle
    /\ RegionIdle /\ DataIdle /\ ParIdle

LoadBasemap ==
    /\ basemap_ret = Pending
    /\ basemap_ret' = load_basemap(wilayah)
    /\ UNCHANGED <<wilayah, catVars, countVars, scoreVars, mapVars, gridVars,
                   threadVars, idwVars, regionVars, dataVars, parVars>>

BaseNext == LoadBasemap

SpecBase == BaseInit /\ [][BaseNext]_vars

\* the rows a requested name matches, in either column
RowsOf(query) ==
    {row \in idkab :
        \E kolom \in {"PROVINSI", "KABUPATEN"} :
            row[kolom] = flexible_match(query, {r[kolom] : r \in idkab})}

\* C30: load_basemap returns the rows of every requested name that matches
\* in either column, and raises ValueError only when no name matches.
\* Violated: once a name matches a province, the rows are selected by
\* province alone and the kabupaten asked for are left out.
CE_C30_EveryMatchedNameLoaded ==
    basemap_ret # Pending =>
        LET asked == UNION {RowsOf(wilayah[i]) : i \in DOMAIN wilayah}
        IN IF asked = {} THEN basemap_ret = Raise("ValueError")
           ELSE /\ basemap_ret.tag = "return"
                /\ asked \subseteq basemap_ret.val.shp_main

(***************************************************************************)
(* The parallel loop of idw_numba: `for i in prange(n)` hands the          *)
(* iterations to the workers of numba's thread pool.  Any idle worker may  *)
(* take any iteration not yet taken, which covers every partition of the   *)
(* iterations and every interleaving of the workers' steps.  Here dists    *)
(* and values hold one row per grid cell (values[i][j] stands for          *)
(* values[idx[i, j]]) and result one slot per cell.                        *)
(***************************************************************************)
MaxCells == 2       \* n, the grid cells of one call
ParNeighbours == 2  \* k, the neighbours of each cell
MaxWorkers == 2     \* threads of the pool

Cells == 1 .. MaxCells
Workers == 1 .. MaxWorkers
Idle == [i |-> 0, j |-> 0]

\* the rows a cell may have: nearest first, or all at one distance
DistRows == {[j \in 1 .. ParNeighbours |-> j - 1], [j \in 1 .. ParNeighbours |-> 1]}
ValueRows == {[j \in 1 .. ParNeighbours |-> 10 * j], [j \in 1 .. ParNeighbours |-> 20]}

\* mutant: w_sum and val_sum are one pair shared by the workers
slot_shared(w) == 1

\* w_sum and val_sum are assigned inside the prange body: each worker has
\* its own pair
slot(w) == w

ParInit ==
    /\ dists \in [Cells -> DistRows]
    /\ values \in [Cells -> ValueRows]
    /\ power \in {1, 2}
    /\ result = [i \in Cells |-> Pending]
    /\ locals = [loop |-> [w \in Workers |-> Idle],
                 sums |-> [w \in Workers |-> [w_sum |-> IntF(0), val_sum |-> IntF(0)]],
                 interleaved |-> FALSE]
    /\ CatIdle /\ CountIdle /\ ScoreIdle
    /\ MapIdle /\ GridIdle /\ ThreadIdle
    /\ RegionIdle /\ DataIdle /\ BaseIdle

ParKept ==
    UNCHANGED <<dists, values, power, catVars, countVars, scoreVars, mapVars,
                gridVars, threadVars, regionVars, dataVars, baseVars>>

\* history: a worker other than w holds partial sums of its iteration
Midway(w) ==
    \E v \in Workers \ {w} :
        locals.loop[v].j > 1 /\ locals.loop[v].j <= ParNeighbours

Taken(i) == result[i] # Pending \/ \E w \in Workers : locals.loop[w].i = i

\* a worker takes iteration i: w_sum = 0.0; val_sum = 0.0
ParBegin(w, i) ==
    /\ locals.loop[w] = Idle
    /\ ~Taken(i)
    /\ locals' = [loop |-> [locals.loop EXCEPT ![w] = [i |-> i, j |-> 1]],
                  sums |-> [locals.sums EXCEPT
                               ![slot(w)] = [w_sum |-> IntF(0), val_sum |-> IntF(0)]],
                  interleaved |-> locals.interleaved]
    /\ UNCHANGED result
    /\ ParKept

\* one pass of `for j in range(k)`
ParAccumulate(w) ==
    LET i == locals.loop[w].i
        j == locals.loop[w].j
        s == locals.sums[slot(w)]
        wt == weight(dists[i][j], power).val
    IN /\ i # 0 /\ j <= ParNeighbours
       /\ locals' = [loop |-> [locals.loop EXCEPT ![w] = [i |-> i, j |-> j + 1]],
                     sums |-> [locals.sums EXCEPT
                                  ![slot(w)] =
                                      [w_sum |-> FAdd(s.w_sum, wt),
                                       val_sum |-> FAdd(s.val_sum,
                                                        FMul(wt, IntF(values[i][j])))]],
                     interleaved |-> locals.interleaved \/ Midway(w)]
       /\ UNCHANGED result
       /\ ParKept

\* result[i] = val_sum / w_sum
ParWrite(w) ==
    LET i == locals.loop[w].i
        s == locals.sums[slot(w)]
    IN /\ i # 0 /\ locals.loop[w].j = ParNeighbours + 1
       /\ result' = [result EXCEPT ![i] = numba_div(s.val_sum, s.w_sum)]
       /\ locals' = [locals EXCEPT !.loop[w] = Idle]
       /\ ParKept

ParNext ==
    \/ \E w \in Workers, i \in Cells : ParBegin(w, i)
    \/ \E w \in Workers : ParAccumulate(w)
    \/ \E w \in Workers : ParWrite(w)

SpecPar == ParInit /\ [][ParNext]_vars

\* C21: under every schedule of the parallel loop each written cell of
\* result holds what the sequential loop computes for that cell from the
\* shared inputs.
T_C21_ScheduleIndependent ==
    \A i \in Cells :
        result[i] # Pending => result[i] = idw_numba(values[i], dists[i], power)

\* all cells are written, with different results, after a worker
\* accumulated while another one held the partial sums of its own iteration
W_C21_OverlappingIterations ==
    /\ \A i \in Cells : result[i] # Pending
    /\ result[1] # result[2]
    /\ locals.interleaved

====
